---- MODULE Spec2Model ----
(***************************************************************************)
(* Risk scoring, SLA deadline and compliance-validity engine of the OHS    *)
(* dashboard (src/unnamed/part_000), with the part of the App component    *)
(* state that feeds it (business units and their thresholds, risk list,    *)
(* threshold editor).                                                      *)
(*                                                                         *)
(* Time.  A JavaScript Date is a number of milliseconds since the epoch,   *)
(* UTC.  The model keeps the same representation at the resolution of one  *)
(* hour: an instant is a number of hours since 1970-01-01T00:00Z.  The     *)
(* host's time zone is a fixed offset tz (local = UTC + tz hours).  A date *)
(* string "YYYY-MM-DD" is the tuple <<y, m, d>>, the empty string is <<>>. *)
(* Turkish labels are written in ASCII.                                    *)
(***************************************************************************)
EXTENDS Integers, Sequences, FiniteSets, TLC

\* ------------------------------------------------------------------ bounds
\* Thresholds typed into the editor and scores are drawn from 1..MaxThreshold
\* (next to the program's default set and the scores around it).
MaxThreshold == 4

\* The longest action list of a risk row.
MaxActions == 3

\* ------------------------------------------------------- JavaScript numbers
\* NaN (parseInt of an empty field, the time value of an invalid Date).
NaN == -999999

IsNaN(x) == x = NaN

\* The relational operators of JavaScript: any comparison with NaN is false.
Gt(a, b) == ~IsNaN(a) /\ ~IsNaN(b) /\ a > b

Lt(a, b) == ~IsNaN(a) /\ ~IsNaN(b) /\ a < b

Le(a, b) == ~IsNaN(a) /\ ~IsNaN(b) /\ a <= b

\* a - b
Minus(a, b) == IF IsNaN(a) \/ IsNaN(b) THEN NaN ELSE a - b

\* ------------------------------------------------------------ Date objects
\* (1000 * 60 * 60 * 24) milliseconds, in hours.
HoursPerDay == 24

\* Math.ceil(x / (1000 * 60 * 60 * 24)) for a difference x of two instants.
CeilDays(x) == IF IsNaN(x) THEN NaN ELSE -((-x) \div HoursPerDay)

IsLeap(y) == (y % 4 = 0 /\ y % 100 # 0) \/ y % 400 = 0

\* Day number (days since 1970-01-01) of year y, month m (1..12), day d of
\* the proleptic Gregorian calendar.  Linear in d, so a day past the end of
\* the month runs over into the following months, as Date's MakeDay does.
DaysFromCivil(y, m, d) ==
    LET yy  == IF m <= 2 THEN y - 1 ELSE y
        era == yy \div 400
        yoe == yy - era * 400
        mp  == IF m > 2 THEN m - 3 ELSE m + 9
        doy == (153 * mp + 2) \div 5 + d - 1
        doe == yoe * 365 + yoe \div 4 - yoe \div 100 + doy
    IN  era * 146097 + doe - 719468

\* The calendar date <<y, m, d>> of a day number.
CivilFromDays(z) ==
    LET zz  == z + 719468
        era == zz \div 146097
        doe == zz - era * 146097
        yoe == (doe - doe \div 1460 + doe \div 36524 - doe \div 146096) \div 365
        doy == doe - (365 * yoe + yoe \div 4 - yoe \div 100)
        mp  == (5 * doy + 2) \div 153
        d   == doy - (153 * mp + 2) \div 5 + 1
        m   == IF mp < 10 THEN mp + 3 ELSE mp - 9
        y   == yoe + era * 400 + (IF m <= 2 THEN 1 ELSE 0)
    IN  <<y, m, d>>

DaysInMonth(y, m) ==
    IF m = 2 THEN (IF IsLeap(y) THEN 29 ELSE 28)
    ELSE IF m \in {4, 6, 9, 11} THEN 30 ELSE 31

\* A string the Date constructor can parse: "YYYY-MM-DD" naming a real day.
IsDateString(s) ==
    /\ Len(s) = 3
    /\ s[2] \in 1..12
    /\ s[3] \in 1..DaysInMonth(s[1], s[2])

\* new Date(dateStr): a date-only ISO string is read as midnight UTC; any
\* other string here (the empty one included) gives an invalid Date.
NewDate(s) ==
    IF IsDateString(s) THEN DaysFromCivil(s[1], s[2], s[3]) * HoursPerDay
    ELSE NaN

\* The local-time fields of an instant t in a zone z hours east of UTC.
LocalDayNumber(t, z) == (t + z) \div HoursPerDay

LocalHours(t, z) == (t + z) % HoursPerDay

\* getFullYear(); NaN for an invalid Date.
getFullYear(t, z) == IF IsNaN(t) THEN NaN ELSE CivilFromDays(LocalDayNumber(t, z))[1]

\* getMonth(): 0..11
getMonth(t, z) == CivilFromDays(LocalDayNumber(t, z))[2] - 1

\* getDate()
getDate(t, z) == CivilFromDays(LocalDayNumber(t, z))[3]

\* The instant with the given local fields (MakeDate of MakeDay and the
\* time within the day, then back to UTC); month is 0..11.
MakeLocal(y, month, d, h, z) == DaysFromCivil(y, month + 1, d) * HoursPerDay + h - z

\* t.setDate(d): the day of the month is replaced, the rest is kept.
setDate(t, d, z) ==
    MakeLocal(getFullYear(t, z), getMonth(t, z), d, LocalHours(t, z), z)

\* t.setFullYear(y): the year is replaced, local month, day and time kept.
setFullYear(t, y, z) ==
    IF IsNaN(t) \/ IsNaN(y) THEN NaN
    ELSE MakeLocal(y, getMonth(t, z), getDate(t, z), LocalHours(t, z), z)

\* t.setHours(23, 59, 59, 999): the last instant of t's local day.
setHoursEndOfDay(t, z) ==
    IF IsNaN(t) THEN NaN
    ELSE MakeLocal(getFullYear(t, z), getMonth(t, z), getDate(t, z), HoursPerDay - 1, z)

\* -------------------------------------------------------------- thresholds
DEFAULT_THRESHOLDS ==
    [intolerable |-> 400, substantial |-> 200, important |-> 70, possible |-> 20]

\* ----------------------------------------------------------- risk classifier
getRiskClass_ge(score, thresholds) ==
    IF score >= thresholds.intolerable
      THEN [label |-> "TOLERANS GOSTERILEMEZ", action |-> "Hemen Durdur"]
    ELSE IF score >= thresholds.substantial
      THEN [label |-> "ESASLI RISK", action |-> "Acil Iyilestir"]
    ELSE IF score >= thresholds.important
      THEN [label |-> "ONEMLI RISK", action |-> "Kisa Vadede Coz"]
    ELSE IF score >= thresholds.possible
      THEN [label |-> "OLASI RISK", action |-> "Gozetim Altinda Tut"]
    ELSE [label |-> "ONEMSIZ RISK", action |-> "Izlemeye Devam"]

getRiskClass(score, thresholds) ==
    IF Gt(score, thresholds.intolerable)
      THEN [label |-> "TOLERANS GOSTERILEMEZ", action |-> "Hemen Durdur"]
    ELSE IF Gt(score, thresholds.substantial)
      THEN [label |-> "ESASLI RISK", action |-> "Acil Iyilestir"]
    ELSE IF Gt(score, thresholds.important)
      THEN [label |-> "ONEMLI RISK", action |-> "Kisa Vadede Coz"]
    ELSE IF Gt(score, thresholds.possible)
      THEN [label |-> "OLASI RISK", action |-> "Gozetim Altinda Tut"]
    ELSE [label |-> "ONEMSIZ RISK", action |-> "Izlemeye Devam"]

\* ------------------------------------------------------------ SLA scheduler
\* The local date of t as "YYYY-MM-DD" (getFullYear, getMonth() + 1, getDate).
FormatLocalDate(t, z) == <<getFullYear(t, z), getMonth(t, z) + 1, getDate(t, z)>>

\* The offsets of the two middle tiers exchanged.
calculateSLADate_swapped(score, thresholds, t, z) ==
    LET targetDate ==
          IF Gt(score, thresholds.intolerable) THEN t
          ELSE IF Gt(score, thresholds.substantial) THEN setDate(t, getDate(t, z) + 60, z)
          ELSE IF Gt(score, thresholds.important) THEN setDate(t, getDate(t, z) + 30, z)
          ELSE IF Gt(score, thresholds.possible) THEN setDate(t, getDate(t, z) + 90, z)
          ELSE setDate(t, getDate(t, z) + 180, z)
    IN  FormatLocalDate(targetDate, z)

calculateSLADate_31(score, thresholds, t, z) ==
    LET targetDate ==
          IF Gt(score, thresholds.intolerable) THEN t
          ELSE IF Gt(score, thresholds.substantial) THEN setDate(t, getDate(t, z) + 31, z)
          ELSE IF Gt(score, thresholds.important) THEN setDate(t, getDate(t, z) + 60, z)
          ELSE IF Gt(score, thresholds.possible) THEN setDate(t, getDate(t, z) + 90, z)
          ELSE setDate(t, getDate(t, z) + 180, z)
    IN  FormatLocalDate(targetDate, z)

\* calculateSLADate(score, thresholds), run at the instant t in the zone z.
calculateSLADate(score, thresholds, t, z) ==
    LET targetDate ==
          IF Gt(score, thresholds.intolerable) THEN t
          ELSE IF Gt(score, thresholds.substantial) THEN setDate(t, getDate(t, z) + 30, z)
          ELSE IF Gt(score, thresholds.important) THEN setDate(t, getDate(t, z) + 60, z)
          ELSE IF Gt(score, thresholds.possible) THEN setDate(t, getDate(t, z) + 90, z)
          ELSE setDate(t, getDate(t, z) + 180, z)
    IN  FormatLocalDate(targetDate, z)

getSLALabel(score, thresholds) ==
    IF Gt(score, thresholds.intolerable) THEN "Acil (Hemen)"
    ELSE IF Gt(score, thresholds.substantial) THEN "1 Ay"
    ELSE IF Gt(score, thresholds.important) THEN "2 Ay"
    ELSE IF Gt(score, thresholds.possible) THEN "3 Ay"
    ELSE "Dusuk Oncelik"

\* ------------------------------------------------- compliance validity (6331)
\* yearsToAdd of calculateValidity.
yearsToAdd_reversed(hazardClass, type) ==
    IF type = "training"
      THEN (IF hazardClass = "Cok Tehlikeli" THEN 3
            ELSE IF hazardClass = "Tehlikeli" THEN 2 ELSE 1)
      ELSE (IF hazardClass = "Cok Tehlikeli" THEN 5
            ELSE IF hazardClass = "Tehlikeli" THEN 3 ELSE 1)

yearsToAdd(hazardClass, type) ==
    IF type = "training"
      THEN (IF hazardClass = "Cok Tehlikeli" THEN 1
            ELSE IF hazardClass = "Tehlikeli" THEN 2 ELSE 3)
      ELSE (IF hazardClass = "Cok Tehlikeli" THEN 1
            ELSE IF hazardClass = "Tehlikeli" THEN 3 ELSE 5)

\* dueDate of calculateValidity: new Date(date) with setFullYear applied.
validityDueDate(dateStr, hazardClass, type, z) ==
    LET date == NewDate(dateStr)
    IN  setFullYear(date, Minus(getFullYear(date, z), -yearsToAdd(hazardClass, type)), z)

\* The status chain of calculateValidity on diffDays.
validityResult_le(diffDays) ==
    IF Le(diffDays, 0)
      THEN [status |-> "expired", label |-> <<"Suresi Doldu">>, days |-> diffDays]
    ELSE IF Lt(diffDays, 60)
      THEN [status |-> "warning", label |-> <<diffDays, "Gun Kaldi">>, days |-> diffDays]
    ELSE [status |-> "valid", label |-> <<"Gecerli">>, days |-> diffDays]

validityResult(diffDays) ==
    IF Lt(diffDays, 0)
      THEN [status |-> "expired", label |-> <<"Suresi Doldu">>, days |-> diffDays]
    ELSE IF Lt(diffDays, 60)
      THEN [status |-> "warning", label |-> <<diffDays, "Gun Kaldi">>, days |-> diffDays]
    ELSE [status |-> "valid", label |-> <<"Gecerli">>, days |-> diffDays]

calculateValidity_noguard(dateStr, hazardClass, type, t, z) ==
    LET dueDate  == validityDueDate(dateStr, hazardClass, type, z)
        diffTime == Minus(dueDate, t)
        diffDays == CeilDays(diffTime)
    IN  validityResult(diffDays)

\* calculateValidity(dateStr, hazardClass, type), run at the instant t in the
\* zone z.
calculateValidity(dateStr, hazardClass, type, t, z) ==
    IF dateStr = <<>>
      THEN [status |-> "missing", label |-> <<"Veri Yok">>, days |-> 0]
    ELSE LET dueDate  == validityDueDate(dateStr, hazardClass, type, z)
             diffTime == Minus(dueDate, t)
             diffDays == CeilDays(diffTime)
         IN  validityResult(diffDays)

\* filteredEmployees: the employees of the unit shown, or all of them.
filteredEmployees(employees, sel) ==
    IF sel = "Tum Isletmeler" THEN employees
    ELSE LET AtSel(e) == e.location = sel IN SelectSeq(employees, AtSel)

\* expiredTraining and expiredHealth of the dashboard, computed at the instant
\* t in the zone z.
expiredTraining(employees, sel, t, z) ==
    LET Expired(e) ==
          calculateValidity(e.lastTrainingDate, e.hazardClass, "training", t, z).status
              = "expired"
    IN  Len(SelectSeq(filteredEmployees(employees, sel), Expired))

expiredHealth(employees, sel, t, z) ==
    LET Expired(e) ==
          calculateValidity(e.lastHealthCheckDate, e.hazardClass, "health", t, z).status
              = "expired"
    IN  Len(SelectSeq(filteredEmployees(employees, sel), Expired))

\* ------------------------------------------------- overdue / due-soon evaluator
\* isOverdue(dateStr), run at the instant t in the zone z.
isOverdue(dateStr, t, z) ==
    IF dateStr = <<>> THEN FALSE
    ELSE LET due == setHoursEndOfDay(NewDate(dateStr), z)
         IN  Lt(due, t)

\* The comparator of calculateDaysLeft's sort; sort reads a NaN result as 0.
compareDue(a, b) ==
    LET v == Minus(NewDate(a.dueDate), NewDate(b.dueDate))
    IN  IF IsNaN(v) THEN 0 ELSE v

\* x placed into the sorted sequence s behind every element not greater.
RECURSIVE InsertSorted(_, _)
InsertSorted(s, x) ==
    IF s = <<>> THEN <<x>>
    ELSE IF compareDue(Head(s), x) <= 0 THEN <<Head(s)>> \o InsertSorted(Tail(s), x)
    ELSE <<x>> \o s

\* Array.prototype.sort with compareDue: stable, ascending.
RECURSIVE SortByDue(_)
SortByDue(s) ==
    IF s = <<>> THEN <<>>
    ELSE InsertSorted(SortByDue(SubSeq(s, 1, Len(s) - 1)), s[Len(s)])

\* The orders sort may leave the array in.  With parsable dates the comparator
\* is consistent and the stable ascending order is the only one; when a date
\* gives NaN the comparator is not consistent and the order is
\* implementation-defined.
SortOutcomes(s) ==
    IF \A i \in 1..Len(s) : ~IsNaN(NewDate(s[i].dueDate)) THEN {SortByDue(s)}
    ELSE {[i \in 1..Len(s) |-> s[p[i]]] : p \in Permutations(1..Len(s))}

\* item.actions after calculateDaysLeft().  filter() returns a new array and
\* sort() reorders that array in place; the array of the item is not written.
actionsAfterDaysLeft(actions) == actions

IsActive_all(a) == TRUE

IsActive(a) == ~a.isCompleted

\* item.actions.filter(a => !a.isCompleted)
activeActions(actions) == SelectSeq(actions, IsActive)

\* calculateDaysLeft() of a row whose sort left the active actions in the
\* order sorted; <<>> is null, <<n>> the number n.
daysLeftOf(actions, sorted, t) ==
    IF Len(actions) = 0 THEN <<>>
    ELSE IF Len(sorted) = 0 THEN <<>>
    ELSE LET nearest  == sorted[1]
             due      == NewDate(nearest.dueDate)
             diffTime == Minus(due, t)
         IN  <<CeilDays(diffTime)>>

RECURSIVE SumSeq(_)
SumSeq(s) == IF s = <<>> THEN 0 ELSE Head(s) + SumSeq(Tail(s))

\* sortedRisks: [...risks].sort((a, b) => b.risk_score - a.risk_score)
RECURSIVE InsertByScore(_, _)
InsertByScore(s, x) ==
    IF s = <<>> THEN <<x>>
    ELSE IF Head(s).risk_score >= x.risk_score THEN <<Head(s)>> \o InsertByScore(Tail(s), x)
    ELSE <<x>> \o s

RECURSIVE sortedRisks(_)
sortedRisks(rs) ==
    IF rs = <<>> THEN <<>>
    ELSE InsertByScore(sortedRisks(SubSeq(rs, 1, Len(rs) - 1)), rs[Len(rs)])

risksAfterSort_inplace(rs) == sortedRisks(rs)

\* The risks state after a render computed sortedRisks: the spread [...risks]
\* copies the array and sort() reorders the copy.
risksAfterSort(rs) == rs

ALL_UNITS == "Tum Isletmeler"

filteredRisks(rs, sel) ==
    IF sel = ALL_UNITS THEN sortedRisks(rs)
    ELSE LET AtSel(r) == r.location = sel IN SelectSeq(sortedRisks(rs), AtSel)

\* overdueActionsCount
overdueActionsCount(rs, sel, t, z) ==
    LET Late(a) == ~a.isCompleted /\ isOverdue(a.dueDate, t, z)
        fr == filteredRisks(rs, sel)
    IN  SumSeq([i \in 1..Len(fr) |-> Len(SelectSeq(fr[i].actions, Late))])

\* ------------------------------------------------------- threshold resolution
\* getAllUnits(): the units of all registries, in order.
RECURSIVE getAllUnits(_)
getAllUnits(regs) ==
    IF regs = <<>> THEN <<>> ELSE Head(regs).units \o getAllUnits(Tail(regs))

\* allUnits.find(u => u.name === locName): <<>> is undefined, <<u>> the unit.
RECURSIVE FindUnit(_, _)
FindUnit(units, locName) ==
    IF units = <<>> THEN <<>>
    ELSE IF Head(units).name = locName THEN <<Head(units)>>
    ELSE FindUnit(Tail(units), locName)

\* unit?.thresholds || DEFAULT_THRESHOLDS.  A unit's optional thresholds field
\* is <<>> when absent and <<t>> when set; an object is always truthy.
getThresholdsForLocation(regs, locName) ==
    LET unit == FindUnit(getAllUnits(regs), locName)
    IN  IF unit # <<>> /\ unit[1].thresholds # <<>> THEN unit[1].thresholds[1]
        ELSE DEFAULT_THRESHOLDS

\* ---------------------------------------------------------------- unit tree
\* The updater saveEditing hands to setRegistries: the registry with the id
\* being edited gets the new name, or else the unit with that id does.
registriesAfterSaveEditing(regs, editingId, editTempName) ==
    [r \in 1..Len(regs) |->
        IF regs[r].id = editingId THEN [regs[r] EXCEPT !.name = editTempName]
        ELSE [regs[r] EXCEPT !.units =
                [u \in 1..Len(@) |->
                    IF @[u].id = editingId THEN [@[u] EXCEPT !.name = editTempName]
                    ELSE @[u]]]]

\* oldName as that updater leaves it: the name of the registry or unit with
\* the id being edited ("" if there is none; ids are distinct).
oldNameOf(regs, editingId) ==
    LET named == {regs[r].name : r \in {r \in 1..Len(regs) : regs[r].id = editingId}}
                   \cup {getAllUnits(regs)[u].name :
                           u \in {u \in 1..Len(getAllUnits(regs)) :
                                     getAllUnits(regs)[u].id = editingId}}
    IN  IF named = {} THEN "" ELSE CHOOSE n \in named : TRUE

\* ------------------------------------------------------ risk list handlers
\* generateId(): Date.now().toString(36) + Math.random().toString(36).substr(2).
\* The n-th call returns the n-th of these names: the ids handed out differ
\* from one another and from the ids of the sample data.
GeneratedIds ==
    <<"g1", "g2", "g3", "g4", "g5", "g6", "g7", "g8", "g9", "g10", "g11", "g12",
      "g13", "g14", "g15", "g16">>

generateId(n) == GeneratedIds[n]

\* A property the analysis result does not carry.
UNDEFINED == -999998

\* x || 1
OrOne(x) == IF x = UNDEFINED \/ IsNaN(x) \/ x = 0 THEN 1 ELSE x

\* The ids one analysed hazard takes: one for the risk, one per seeded action.
IdsOfHazard(r) == 1 + (IF r.actionsIsArray THEN Len(r.actions) ELSE 0)

\* The callback of res.map in handleFileUpload: the risk made of the analysed
\* hazard r, with ids from the n-th on, for the location and the thresholds
\* the handler captured, at the instant t.
newRiskWithoutFallback(r, n, location, currentThresholds, t, z) ==
    LET score == OrOne(r.probability) * OrOne(r.frequency) * OrOne(r.severity)
    IN  [id |-> generateId(n), location |-> location,
         probability |-> r.probability, frequency |-> r.frequency,
         severity |-> r.severity, risk_score |-> score,
         actions |-> IF r.actionsIsArray
                       THEN [i \in 1..Len(r.actions) |->
                               [id |-> generateId(n + i), description |-> r.actions[i],
                                dueDate |-> calculateSLADate(score, currentThresholds, t, z),
                                isCompleted |-> FALSE, responsibleId |-> ""]]
                       ELSE <<>>,
         status |-> "Acik"]

newRisk(r, n, location, currentThresholds, t, z) ==
    LET score == OrOne(r.probability) * OrOne(r.frequency) * OrOne(r.severity)
    IN  [id |-> generateId(n), location |-> location,
         probability |-> OrOne(r.probability), frequency |-> OrOne(r.frequency),
         severity |-> OrOne(r.severity), risk_score |-> score,
         actions |-> IF r.actionsIsArray
                       THEN [i \in 1..Len(r.actions) |->
                               [id |-> generateId(n + i), description |-> r.actions[i],
                                dueDate |-> calculateSLADate(score, currentThresholds, t, z),
                                isCompleted |-> FALSE, responsibleId |-> ""]]
                       ELSE <<>>,
         status |-> "Acik"]

\* res.map(...): the risks of all analysed hazards, ids taken in order.
RECURSIVE newRisks(_, _, _, _, _, _)
newRisks(res, n, location, currentThresholds, t, z) ==
    IF res = <<>> THEN <<>>
    ELSE <<newRisk(Head(res), n, location, currentThresholds, t, z)>>
           \o newRisks(Tail(res), n + IdsOfHazard(Head(res)), location,
                       currentThresholds, t, z)

RECURSIVE IdsOfResult(_)
IdsOfResult(res) ==
    IF res = <<>> THEN 0 ELSE IdsOfHazard(Head(res)) + IdsOfResult(Tail(res))

\* deleteRisk, confirmed: prev.filter(r => r.id !== id)
deleteRisk(rs, id) == LET Keep(r) == r.id # id IN SelectSeq(rs, Keep)

\* updateStatus
updateStatus(rs, id, status) ==
    [i \in 1..Len(rs) |-> IF rs[i].id = id THEN [rs[i] EXCEPT !.status = status] ELSE rs[i]]

addAction_everywhere(rs, id, newId, description, dueDate, responsibleId) ==
    [i \in 1..Len(rs) |->
        [rs[i] EXCEPT !.actions =
            Append(@, [id |-> newId, description |-> description, dueDate |-> dueDate,
                       isCompleted |-> FALSE, responsibleId |-> responsibleId])]]

\* addAction, newId being what generateId() returned.
addAction(rs, id, newId, description, dueDate, responsibleId) ==
    [i \in 1..Len(rs) |->
        IF rs[i].id = id
          THEN [rs[i] EXCEPT !.actions =
                  Append(@, [id |-> newId, description |-> description,
                             dueDate |-> dueDate, isCompleted |-> FALSE,
                             responsibleId |-> responsibleId])]
          ELSE rs[i]]

deleteAction_completedOnly(rs, riskId, actionId) ==
    LET Keep(a) == a.id # actionId \/ ~a.isCompleted
    IN  [i \in 1..Len(rs) |->
            IF rs[i].id = riskId THEN [rs[i] EXCEPT !.actions = SelectSeq(@, Keep)]
            ELSE rs[i]]

\* deleteAction
deleteAction(rs, riskId, actionId) ==
    LET Keep(a) == a.id # actionId
    IN  [i \in 1..Len(rs) |->
            IF rs[i].id = riskId THEN [rs[i] EXCEPT !.actions = SelectSeq(@, Keep)]
            ELSE rs[i]]

toggleAction_anyHazard(rs, riskId, actionId) ==
    [i \in 1..Len(rs) |->
        [rs[i] EXCEPT !.actions =
            [k \in 1..Len(@) |->
                IF @[k].id = actionId THEN [@[k] EXCEPT !.isCompleted = ~@] ELSE @[k]]]]

\* toggleAction
toggleAction(rs, riskId, actionId) ==
    [i \in 1..Len(rs) |->
        IF rs[i].id # riskId THEN rs[i]
        ELSE [rs[i] EXCEPT !.actions =
                [k \in 1..Len(@) |->
                    IF @[k].id = actionId THEN [@[k] EXCEPT !.isCompleted = ~@] ELSE @[k]]]]

\* updateActionDate
updateActionDate(rs, riskId, actionId, date) ==
    [i \in 1..Len(rs) |->
        IF rs[i].id # riskId THEN rs[i]
        ELSE [rs[i] EXCEPT !.actions =
                [k \in 1..Len(@) |->
                    IF @[k].id = actionId THEN [@[k] EXCEPT !.dueDate = date] ELSE @[k]]]]

\* updateActionResponsible
updateActionResponsible(rs, riskId, actionId, responsibleId) ==
    [i \in 1..Len(rs) |->
        IF rs[i].id # riskId THEN rs[i]
        ELSE [rs[i] EXCEPT !.actions =
                [k \in 1..Len(@) |->
                    IF @[k].id = actionId THEN [@[k] EXCEPT !.responsibleId = responsibleId]
                    ELSE @[k]]]]

\* ------------------------------------------------------------ what is shown
\* RiskRow: riskClass = getRiskClass(item.risk_score, thresholds) and
\* slaLabel = getSLALabel(item.risk_score, thresholds), computed in the body of
\* the component, i.e. at every render.
RiskRowView(item, thresholds) ==
    [id |-> item.id,
     label |-> getRiskClass(item.risk_score, thresholds).label,
     action |-> getRiskClass(item.risk_score, thresholds).action,
     slaLabel |-> getSLALabel(item.risk_score, thresholds)]

COMPLETED == "Tamamlandi"

RISKS_TAB == "risks"

Tabs == {"dashboard", RISKS_TAB, "personnel"}

\* criticalRisks: score > t.substantial and not completed.
criticalRisks(regs, fr) ==
    LET Critical(r) ==
            /\ Gt(r.risk_score, getThresholdsForLocation(regs, r.location).substantial)
            /\ r.status # COMPLETED
    IN  Len(SelectSeq(fr, Critical))

\* highRisks: t.important < score <= t.substantial and not completed.
highRisks(regs, fr) ==
    LET High(r) ==
            LET t == getThresholdsForLocation(regs, r.location)
            IN  /\ Gt(r.risk_score, t.important)
                /\ Le(r.risk_score, t.substantial)
                /\ r.status # COMPLETED
    IN  Len(SelectSeq(fr, High))

\* A render that classifies every row with the default set, whatever its unit.
Render_defaults(regs, rs, sel, tab) ==
    LET fr == filteredRisks(rs, sel)
    IN  [rows |-> IF tab = RISKS_TAB
                  THEN [i \in 1..Len(fr) |-> RiskRowView(fr[i], DEFAULT_THRESHOLDS)]
                  ELSE <<>>,
         criticalRisks |-> criticalRisks(<<>>, fr),
         highRisks |-> highRisks(<<>>, fr)]

\* One render of App: the two counters of the dashboard and, on the risks
\* tab, a RiskRow per filtered risk, each given
\* thresholds={getThresholdsForLocation(item.location)}.
Render(regs, rs, sel, tab) ==
    LET fr == filteredRisks(rs, sel)
    IN  [rows |-> IF tab = RISKS_TAB
                  THEN [i \in 1..Len(fr) |->
                          RiskRowView(fr[i], getThresholdsForLocation(regs, fr[i].location))]
                  ELSE <<>>,
         criticalRisks |-> criticalRisks(regs, fr),
         highRisks |-> highRisks(regs, fr)]

\* What generateNotifications pushes for one risk: by its score a critical or
\* a warning notification unless it is completed, and one more when an
\* incomplete action of it is overdue.  The timestamp is the time of day.
notificationsOfRisk(regs, risk, t, z) ==
    LET th == getThresholdsForLocation(regs, risk.location)
        Late(a) == ~a.isCompleted /\ isOverdue(a.dueDate, t, z)
        Item(prefix, type) ==
            <<[id |-> <<prefix, risk.id>>, type |-> type, timestamp |-> LocalHours(t, z),
               location |-> risk.location]>>
    IN  (IF risk.status # COMPLETED /\ Gt(risk.risk_score, th.substantial)
           THEN Item("crit", "critical")
         ELSE IF risk.status # COMPLETED /\ Gt(risk.risk_score, th.important)
           THEN Item("warn", "warning")
         ELSE <<>>)
        \o (IF Len(SelectSeq(risk.actions, Late)) > 0 THEN Item("act-due", "critical")
            ELSE <<>>)

\* The list generateNotifications() hands to setNotifications, run at the
\* instant t with the registries regs and the risk list rs of the render its
\* effect belongs to (the staff list is not part of the model).
RECURSIVE generateNotifications(_, _, _, _)
generateNotifications(regs, rs, t, z) ==
    IF rs = <<>> THEN <<>>
    ELSE notificationsOfRisk(regs, Head(rs), t, z)
            \o generateNotifications(regs, Tail(rs), t, z)

\* ---------------------------------------------------------- RiskRow's state
\* The risk a row shows: the item of the list with the row's key.
RiskById(rs, id) == rs[CHOOSE i \in 1..Len(rs) : rs[i].id = id]

\* setNewActionDate(calculateSLADate(item.risk_score, thresholds)) at the
\* instant t.  newActionDate is the content of the date field; suggestion
\* records, for a date the row put there itself, the thresholds and the clock
\* it was computed from (<<>> for a date the user typed).
SuggestRow(item, thresholds, t, z) ==
    [newActionDate |-> calculateSLADate(item.risk_score, thresholds, t, z),
     suggestion |-> <<[thresholds |-> thresholds, at |-> t]>>]

\* The rows after a render: a RiskRow (key = item.id) per filtered risk on the
\* risks tab.  A row that stays mounted keeps its state; a row that mounts
\* starts with useState("") and its effect runs once, filling the date field.
MountRows(old, regs, rs, sel, tab, t, z) ==
    LET fr == IF tab = RISKS_TAB THEN filteredRisks(rs, sel) ELSE <<>>
    IN  [id \in {fr[i].id : i \in 1..Len(fr)} |->
            IF id \in DOMAIN old THEN old[id]
            ELSE SuggestRow(RiskById(rs, id),
                            getThresholdsForLocation(regs, RiskById(rs, id).location),
                            t, z)]

\* The effect's dependency "thresholds" changes for the rows whose location
\* resolves to the unit just saved (every other row is handed the same
\* object as before); the effect fills the date field only if it is empty.
RowsAfterSave(old, regs, rs, unitId, t, z) ==
    [id \in DOMAIN old |->
        LET item == RiskById(rs, id)
            unit == FindUnit(getAllUnits(regs), item.location)
        IN  IF unit # <<>> /\ unit[1].id = unitId /\ old[id].newActionDate = <<>>
              THEN SuggestRow(item, getThresholdsForLocation(regs, item.location), t, z)
              ELSE old[id]]

\* ------------------------------------------------------------------- state
VARIABLES
    now,              \* the system clock: the instant new Date() returns
    tz,               \* the host's time zone, hours east of UTC
    registries,       \* App state: registries with their business units
    risks,            \* App state: the risk list
    selectedLocation, \* App state: the unit shown, or ALL_UNITS
    thresholdModal,   \* App state: the threshold editor
    activeTab,        \* App state: the tab shown
    view,             \* what the last render put on the screen
    notifications,    \* App state: the notification list
    rows,             \* the state of each mounted RiskRow, by risk id
    uploads,          \* handleFileUpload calls whose analysis is in flight
    nextId,           \* how many ids generateId() has handed out, plus one
    ops,              \* how many user operations the run has made
    arg,              \* the arguments of the engine call under study
    ret               \* the engine call made in this state and what it returned

vars == <<now, tz, registries, risks, selectedLocation, thresholdModal, activeTab,
          view, notifications, rows, uploads, nextId, ops, arg, ret>>

uiVars == <<view, notifications, rows, uploads, nextId, ops>>

appVars == <<registries, risks, selectedLocation, thresholdModal, activeTab, uiVars>>

SAMPLE_RISKS ==
    << [id |-> "sample-1", location |-> "Genel Mudurluk",
        probability |-> 3, frequency |-> 6, severity |-> 7, risk_score |-> 126,
        actions |-> << [id |-> "act-1", description |-> "Kaymaz zemin",
                        dueDate |-> <<2024, 6, 20>>, isCompleted |-> FALSE,
                        responsibleId |-> ""],
                       [id |-> "act-2", description |-> "Uyari levhalari",
                        dueDate |-> <<2024, 5, 25>>, isCompleted |-> TRUE,
                        responsibleId |-> "emp-1"] >>,
        status |-> "Devam Ediyor"],
       [id |-> "sample-2", location |-> "Ek Bina",
        probability |-> 3, frequency |-> 3, severity |-> 40, risk_score |-> 360,
        actions |-> << [id |-> "act-3", description |-> "Kablolar izole",
                        dueDate |-> <<2024, 5, 21>>, isCompleted |-> FALSE,
                        responsibleId |-> "emp-2"] >>,
        status |-> "Acik"] >>

\* The useState initial values of App.
InitRegistries ==
    << [id |-> "reg-hq", name |-> "Genel Merkez",
        units |-> << [id |-> "u-hq-1", name |-> "Genel Mudurluk", thresholds |-> <<>>],
                     [id |-> "u-hq-2", name |-> "Ek Bina", thresholds |-> <<>>] >>] >>

InitThresholdModal ==
    [isOpen |-> FALSE, registryId |-> "", unitId |-> "", unitName |-> "",
     values |-> DEFAULT_THRESHOLDS]

\* No RiskRow is mounted.
NoRows == [id \in {} |-> <<>>]

InitUi ==
    /\ activeTab = "dashboard"
    /\ view = Render(registries, risks, selectedLocation, activeTab)
    /\ notifications = generateNotifications(registries, risks, now, tz)
    /\ rows = NoRows
    /\ uploads = <<>>
    /\ nextId = 1
    /\ ops = 0

InitApp ==
    /\ registries = InitRegistries
    /\ risks = SAMPLE_RISKS
    /\ selectedLocation = ALL_UNITS
    /\ thresholdModal = InitThresholdModal
    /\ InitUi

NoCall == [fn |-> "none"]

\* The time zones the host may be in.
TimeZones == {-5, 0, 3}

\* The clock reads hour h of the local day <<y, m, d>>.
ClockAt(day, h) == now = MakeLocal(day[1], day[2] - 1, day[3], h, tz)

\* ============================================================================
\* Classifier and SLA scheduler called on arbitrary scores and thresholds.
\* ============================================================================
ThresholdFields == {"intolerable", "substantial", "important", "possible"}

ClassifyThresholds ==
    [ThresholdFields -> 1..MaxThreshold]
      \cup {DEFAULT_THRESHOLDS}
      \cup {[DEFAULT_THRESHOLDS EXCEPT ![f] = NaN] : f \in ThresholdFields}
      \cup {[DEFAULT_THRESHOLDS EXCEPT !.possible = p] : p \in {-5, 0}}

ClassifyScores ==
    (-1..(MaxThreshold + 1))
      \cup {DEFAULT_THRESHOLDS[f] + d : f \in ThresholdFields, d \in {-1, 0, 1}}

ClassifyDays == {<<2023, 12, 31>>, <<2024, 1, 31>>}

ClassifyHours == {0, HoursPerDay - 1}

InitClassify ==
    /\ tz \in TimeZones
    /\ \E day \in ClassifyDays, h \in ClassifyHours : ClockAt(day, h)
    /\ InitApp
    /\ arg \in [score : ClassifyScores, t : ClassifyThresholds]
    /\ ret = NoCall

CallGetRiskClass ==
    /\ ret' = [fn |-> "getRiskClass", val |-> getRiskClass(arg.score, arg.t)]
    /\ UNCHANGED <<now, tz, appVars, arg>>

CallCalculateSLADate ==
    /\ ret' = [fn |-> "calculateSLADate",
               val |-> calculateSLADate(arg.score, arg.t, now, tz)]
    /\ UNCHANGED <<now, tz, appVars, arg>>

CallGetSLALabel ==
    /\ ret' = [fn |-> "getSLALabel", val |-> getSLALabel(arg.score, arg.t)]
    /\ UNCHANGED <<now, tz, appVars, arg>>

NextClassify == CallGetRiskClass \/ CallCalculateSLADate \/ CallGetSLALabel

SpecClassify == InitClassify /\ [][NextClassify]_vars

\* ============================================================================
\* The compliance validity calculator called on arbitrary personnel records.
\* ============================================================================
HazardClasses == {"Az Tehlikeli", "Tehlikeli", "Cok Tehlikeli"}

ComplianceTypes == {"training", "health"}

\* A string that is not a date ("abc").
GARBAGE == <<0, 0, 0>>

ValidityDates ==
    {<<>>, GARBAGE, <<2019, 3, 1>>, <<2020, 1, 15>>, <<2020, 2, 29>>, <<2023, 6, 1>>}

\* Midnight UTC of the same month and day, years later.
SameDayLater(dateStr, years) ==
    IF IsDateString(dateStr)
      THEN DaysFromCivil(dateStr[1] + years, dateStr[2], dateStr[3]) * HoursPerDay
      ELSE DaysFromCivil(2024, 1, 1) * HoursPerDay

\* The clock readings tried, in hours after the same day years later: every
\* hour of the days around 60 days before it, around it, and past it.
ValidityClockOffsets ==
    {d * HoursPerDay + h : d \in {-61, -60, -1, 0, 1, 2}, h \in -1..HoursPerDay}

ValidityDays == {<<2021, 1, 16>>, <<2023, 6, 2>>}

\* The clock readings tried in hours after the event date itself: every hour
\* of the day after it, and the hour before and after that day.
EventClockOffsets == (HoursPerDay - 1)..(2 * HoursPerDay)

InitValidity ==
    /\ tz \in TimeZones
    /\ arg \in [dateStr : ValidityDates, hazardClass : HazardClasses, type : ComplianceTypes]
    /\ \/ \E k \in ValidityClockOffsets :
            now = SameDayLater(arg.dateStr, yearsToAdd(arg.hazardClass, arg.type)) + k
       \/ \E day \in ValidityDays, h \in {0, 12} : ClockAt(day, h)
       \/ /\ IsDateString(arg.dateStr)
          /\ \E k \in EventClockOffsets : now = NewDate(arg.dateStr) + k
    /\ InitApp
    /\ ret = NoCall

CallCalculateValidity ==
    /\ ret' = [fn |-> "calculateValidity",
               val |-> calculateValidity(arg.dateStr, arg.hazardClass, arg.type, now, tz)]
    /\ UNCHANGED <<now, tz, appVars, arg>>

\* The dashboard's expired totals over a staff of one: the employee whose
\* record of the type under study carries the date under study (the other
\* record is empty).
DashboardExpiredTotals ==
    LET employees ==
          <<[id |-> "emp-1", location |-> "Genel Mudurluk", hazardClass |-> arg.hazardClass,
             lastTrainingDate |-> IF arg.type = "training" THEN arg.dateStr ELSE <<>>,
             lastHealthCheckDate |-> IF arg.type = "health" THEN arg.dateStr ELSE <<>>]>>
    IN  /\ ret' = [fn |-> "expiredTotals",
                   expiredTraining |-> expiredTraining(employees, selectedLocation, now, tz),
                   expiredHealth |-> expiredHealth(employees, selectedLocation, now, tz)]
        /\ UNCHANGED <<now, tz, appVars, arg>>

NextValidity == CallCalculateValidity \/ DashboardExpiredTotals

SpecValidity == InitValidity /\ [][NextValidity]_vars

\* ============================================================================
\* The overdue / due-soon evaluator on a risk row with an arbitrary action list.
\* ============================================================================
ActionDates == {<<>>, <<2024, 1, 1>>, <<2024, 6, 1>>}

ActionIds == <<"a1", "a2", "a3", "a4", "a5">>

\* The action lists of n actions, ids in list order.
ActionListsOfLen(n) ==
    {[i \in 1..n |-> [id |-> ActionIds[i], description |-> "x", dueDate |-> f[i][1],
                      isCompleted |-> f[i][2], responsibleId |-> ""]] :
        f \in [1..n -> ActionDates \X BOOLEAN]}

ActionLists == UNION {ActionListsOfLen(n) : n \in 0..MaxActions}

EvaluateDays == {<<2024, 1, 1>>, <<2024, 6, 1>>, <<2024, 6, 2>>}

EvaluateHours == {0, 2, HoursPerDay - 1}

\* The row under study, and behind it the second sample risk.
InitEvaluate ==
    /\ registries \in {InitRegistries,
                       [InitRegistries EXCEPT ![1].units[1].thresholds =
                            <<[DEFAULT_THRESHOLDS EXCEPT !.substantial = 100]>>]}
    /\ selectedLocation = ALL_UNITS
    /\ thresholdModal = InitThresholdModal
    /\ \E acts \in ActionLists :
          risks = <<[SAMPLE_RISKS[1] EXCEPT !.actions = acts], SAMPLE_RISKS[2]>>
    /\ tz \in TimeZones
    /\ \E day \in EvaluateDays, h \in EvaluateHours : ClockAt(day, h)
    /\ InitUi
    /\ arg = [row |-> 1]
    /\ ret = NoCall

\* What an engine call leaves alone besides the risk list.
evaluateFrame ==
    <<now, tz, registries, selectedLocation, thresholdModal, activeTab, uiVars, arg>>

\* RiskRow's action list: overdue = isOverdue(action.dueDate) && !action.isCompleted
RowOverdueFlags ==
    LET actions == risks[arg.row].actions
    IN  /\ ret' = [fn |-> "isOverdue",
                   val |-> [i \in 1..Len(actions) |->
                              isOverdue(actions[i].dueDate, now, tz) /\ ~actions[i].isCompleted]]
        /\ UNCHANGED <<now, tz, appVars, arg>>

\* The dashboard's overdueActionsCount, over filteredRisks.
DashboardOverdueCount ==
    /\ ret' = [fn |-> "overdueActionsCount",
               val |-> overdueActionsCount(risks, selectedLocation, now, tz)]
    /\ risks' = risksAfterSort(risks)
    /\ UNCHANGED evaluateFrame

\* RiskRow's daysLeft = calculateDaysLeft().
CallCalculateDaysLeft ==
    LET actions == risks[arg.row].actions
    IN  /\ \E sorted \in SortOutcomes(activeActions(actions)) :
              ret' = [fn |-> "calculateDaysLeft",
                      nearest |-> IF Len(actions) = 0 \/ Len(sorted) = 0 THEN <<>>
                                  ELSE <<sorted[1]>>,
                      val |-> daysLeftOf(actions, sorted, now)]
        /\ risks' = [risks EXCEPT ![arg.row].actions = actionsAfterDaysLeft(actions)]
        /\ UNCHANGED evaluateFrame

\* RiskRow's riskClass and slaLabel, with the thresholds App resolved for it.
RowClassify ==
    LET item == risks[arg.row]
    IN  /\ ret' = [fn |-> "RiskRow",
                   thresholds |-> getThresholdsForLocation(registries, item.location),
                   val |-> RiskRowView(item, getThresholdsForLocation(registries, item.location))]
        /\ UNCHANGED <<now, tz, appVars, arg>>

NextEvaluate ==
    RowOverdueFlags \/ DashboardOverdueCount \/ CallCalculateDaysLeft \/ RowClassify

SpecEvaluate == InitEvaluate /\ [][NextEvaluate]_vars

\* ============================================================================
\* The threshold editor of the unit tree, and threshold resolution.
\* ============================================================================
\* What the user types into a field of the editor: the field, and parseInt of
\* the text ("" gives NaN).
EditInputs == {<<"substantial", 100>>, <<"important", 150>>, <<"possible", NaN>>}

\* The names thresholds are looked up for: the units' and one no unit carries.
LocationNames == {"Genel Mudurluk", "Ek Bina", "Depo"}

InitThresholds ==
    /\ registries = InitRegistries
    /\ risks = SAMPLE_RISKS
    /\ selectedLocation = ALL_UNITS
    /\ thresholdModal = InitThresholdModal
    /\ tz = 3
    /\ ClockAt(<<2024, 6, 1>>, 12)
    /\ activeTab \in {"dashboard", RISKS_TAB}
    /\ view = Render(registries, risks, selectedLocation, activeTab)
    /\ notifications = generateNotifications(registries, risks, now, tz)
    /\ rows = MountRows(NoRows, registries, risks, selectedLocation, activeTab, now, tz)
    /\ uploads = <<>>
    /\ nextId = 1
    /\ ops = 0
    /\ arg = [row |-> 1]
    /\ ret = NoCall

openThresholdSettings(r, u) ==
    LET unit == registries[r].units[u]
    IN  /\ thresholdModal' =
              [isOpen |-> TRUE, registryId |-> registries[r].id, unitId |-> unit.id,
               unitName |-> unit.name,
               values |-> IF unit.thresholds # <<>> THEN unit.thresholds[1]
                          ELSE DEFAULT_THRESHOLDS]
        /\ ret' = NoCall
        /\ UNCHANGED <<now, tz, registries, risks, selectedLocation, activeTab, uiVars, arg>>

\* onChange of one of the four inputs.
EditThresholdField(f, v) ==
    /\ thresholdModal.isOpen
    /\ thresholdModal' = [thresholdModal EXCEPT !.values[f] = v]
    /\ ret' = NoCall
    /\ UNCHANGED <<now, tz, registries, risks, selectedLocation, activeTab, uiVars, arg>>

\* "Varsayilanlara Don"
ResetThresholdDefaults ==
    /\ thresholdModal.isOpen
    /\ thresholdModal' = [thresholdModal EXCEPT !.values = DEFAULT_THRESHOLDS]
    /\ ret' = NoCall
    /\ UNCHANGED <<now, tz, registries, risks, selectedLocation, activeTab, uiVars, arg>>

\* "Iptal"
CancelThresholds ==
    /\ thresholdModal.isOpen
    /\ thresholdModal' = [thresholdModal EXCEPT !.isOpen = FALSE]
    /\ ret' = NoCall
    /\ UNCHANGED <<now, tz, registries, risks, selectedLocation, activeTab, uiVars, arg>>

\* "Kaydet"
saveThresholds ==
    /\ thresholdModal.isOpen
    /\ registries' =
          [r \in 1..Len(registries) |->
              IF registries[r].id # thresholdModal.registryId THEN registries[r]
              ELSE [registries[r] EXCEPT !.units =
                      [u \in 1..Len(registries[r].units) |->
                          IF registries[r].units[u].id # thresholdModal.unitId
                            THEN registries[r].units[u]
                          ELSE [registries[r].units[u] EXCEPT
                                  !.thresholds = <<thresholdModal.values>>]]]]
    /\ thresholdModal' = [thresholdModal EXCEPT !.isOpen = FALSE]
    /\ ret' = NoCall
    /\ view' = Render(registries', risks, selectedLocation, activeTab)
    /\ rows' = RowsAfterSave(rows, registries', risks, thresholdModal.unitId, now, tz)
    /\ UNCHANGED <<now, tz, risks, selectedLocation, activeTab, notifications, uploads,
                   nextId, ops, arg>>

\* A calculation asks for the thresholds of a location.
ResolveThresholds(loc) ==
    /\ ret' = [fn |-> "getThresholdsForLocation", loc |-> loc,
               val |-> getThresholdsForLocation(registries, loc)]
    /\ UNCHANGED <<now, tz, appVars, arg>>

NextThresholds ==
    \/ \E r \in 1..Len(registries) : \E u \in 1..Len(registries[r].units) :
          openThresholdSettings(r, u)
    \/ \E e \in EditInputs : EditThresholdField(e[1], e[2])
    \/ ResetThresholdDefaults
    \/ CancelThresholds
    \/ saveThresholds
    \/ \E loc \in LocationNames : ResolveThresholds(loc)

SpecThresholds == InitThresholds /\ [][NextThresholds]_vars

\* ============================================================================
\* The risk list: uploads, the rows' buttons, the tabs and the unit filter.
\* ============================================================================
MaxOps == 3

\* One more user operation or callback, of the MaxOps a run makes.
Counted == ops < MaxOps /\ ops' = ops + 1

\* What analyzeHazard may resolve to: nothing found; one hazard whose
\* probability is 0 with two measures; two hazards, the first without a
\* probability and without an actions array.
AnalysisResults ==
    { <<>>,
      << [probability |-> 0, frequency |-> 6, severity |-> 40,
          actionsIsArray |-> TRUE, actions |-> <<"Bariyer kur", "Egitim ver">>] >>,
      << [probability |-> UNDEFINED, frequency |-> 2, severity |-> 3,
          actionsIsArray |-> FALSE, actions |-> <<>>],
         [probability |-> 10, frequency |-> 10, severity |-> 100,
          actionsIsArray |-> TRUE, actions |-> <<"Calismayi durdur">>] >> }

\* What the text field of a row may hold when "Ekle" is pressed.
ActionTexts == {"", "  ", " Yeni onlem "}

Trim_nothing(text) == text

\* String.prototype.trim on those.
Trim(text) ==
    CASE text = "  " -> ""
      [] text = " Yeni onlem " -> "Yeni onlem"
      [] OTHER -> text

EmployeeIds == {"", "emp-1"}

\* What the text field and the responsible select of a row may hold when
\* "Ekle" is pressed.
AddActionInputs ==
    {<<"", "">>, <<"  ", "emp-1">>, <<" Yeni onlem ", "">>, <<" Yeni onlem ", "emp-1">>}

\* What the user may put into a date field: a date, or nothing (cleared).
TypedDates == {<<>>, <<2024, 6, 10>>}

StatusInputs == {COMPLETED}

UnitFilters == {ALL_UNITS, "Genel Mudurluk", "Ek Bina"}

InitRisks ==
    /\ registries \in {InitRegistries,
                       [InitRegistries EXCEPT ![1].units[2].thresholds =
                            <<[DEFAULT_THRESHOLDS EXCEPT !.intolerable = 300]>>]}
    /\ risks = SAMPLE_RISKS
    /\ selectedLocation \in UnitFilters
    /\ thresholdModal = InitThresholdModal
    /\ tz = 3
    /\ ClockAt(<<2024, 6, 1>>, 12)
    /\ activeTab \in {"dashboard", RISKS_TAB}
    /\ view = Render(registries, risks, selectedLocation, activeTab)
    /\ notifications = generateNotifications(registries, risks, now, tz)
    /\ rows = MountRows(NoRows, registries, risks, selectedLocation, activeTab, now, tz)
    /\ uploads = <<>>
    /\ nextId = 1
    /\ ops = 0
    /\ arg = [row |-> 1]
    /\ ret = NoCall

\* The render that follows a state change: the screen and the rows, oldRows
\* being the rows' state as the handler left it.
Rerender(oldRows) ==
    /\ view' = Render(registries', risks', selectedLocation', activeTab')
    /\ rows' = MountRows(oldRows, registries', risks', selectedLocation', activeTab',
                         now', tz')

\* The notifications effect (dependencies [risks, employees]) after a render
\* whose risks array is a new one.
Renotify == notifications' = generateNotifications(registries', risks', now', tz')

setActiveTab(tab) ==
    /\ Counted
    /\ tab # activeTab
    /\ activeTab' = tab
    /\ ret' = [fn |-> "setActiveTab"]
    /\ UNCHANGED <<now, tz, registries, risks, selectedLocation, thresholdModal,
                   notifications, uploads, nextId, arg>>
    /\ Rerender(rows)

setSelectedLocation(loc) ==
    /\ Counted
    /\ loc # selectedLocation
    /\ selectedLocation' = loc
    /\ ret' = [fn |-> "setSelectedLocation"]
    /\ UNCHANGED <<now, tz, registries, risks, thresholdModal, activeTab,
                   notifications, uploads, nextId, arg>>
    /\ Rerender(rows)

\* A day passes.
ClockAdvances ==
    /\ Counted
    /\ now' = now + HoursPerDay
    /\ ret' = [fn |-> "clock"]
    /\ UNCHANGED <<tz, registries, risks, selectedLocation, thresholdModal, activeTab,
                   view, notifications, rows, uploads, nextId, arg>>

\* handleFileUpload with a file chosen.  With no unit selected it alerts and
\* returns; otherwise it captures selectedLocation and the thresholds of that
\* unit and starts reading the file (isAnalyzing is set and reset within the
\* call).
handleFileUpload ==
    /\ Counted
    /\ IF selectedLocation = ALL_UNITS
         THEN /\ ret' = [fn |-> "handleFileUpload", started |-> FALSE]
              /\ UNCHANGED uploads
         ELSE /\ ret' = [fn |-> "handleFileUpload", started |-> TRUE]
              /\ uploads' = Append(uploads,
                    [selectedLocation |-> selectedLocation,
                     currentThresholds |->
                         getThresholdsForLocation(registries, selectedLocation)])
    /\ UNCHANGED <<now, tz, registries, risks, selectedLocation, thresholdModal,
                   activeTab, view, notifications, rows, nextId, arg>>

\* The sequence s without its k-th element.
RemoveAt(s, k) == SubSeq(s, 1, k - 1) \o SubSeq(s, k + 1, Len(s))

thresholdsOfUpload_reread(upload, regs) ==
    getThresholdsForLocation(regs, upload.selectedLocation)

\* currentThresholds as reader.onload sees it: the constant of the
\* handleFileUpload call it was created in, whatever the registries hold now.
thresholdsOfUpload(upload, regs) == upload.currentThresholds

risksAfterUpload_replace(made, prev) == made

\* setRisks(prev => [...newRisks, ...prev])
risksAfterUpload(made, prev) == made \o prev

\* reader.onload of the k-th upload in flight, analyzeHazard resolving to res
\* (the empty list when the response text is not valid JSON).
UploadAnalysed(k, res) ==
    /\ Counted
    /\ nextId + IdsOfResult(res) - 1 <= Len(GeneratedIds)
    /\ risks' = risksAfterUpload(newRisks(res, nextId, uploads[k].selectedLocation,
                                          thresholdsOfUpload(uploads[k], registries),
                                          now, tz),
                                 risks)
    /\ nextId' = nextId + IdsOfResult(res)
    /\ uploads' = RemoveAt(uploads, k)
    /\ ret' = [fn |-> "UploadAnalysed", res |-> res, upload |-> uploads[k],
               before |-> risks]
    /\ UNCHANGED <<now, tz, registries, selectedLocation, thresholdModal, activeTab, arg>>
    /\ Rerender(rows)
    /\ Renotify

\* reader.onload of the k-th upload in flight, analyzeHazard throwing: the
\* async callback rejects and nothing is set.
UploadFailed(k) ==
    /\ Counted
    /\ uploads' = RemoveAt(uploads, k)
    /\ ret' = [fn |-> "UploadFailed"]
    /\ UNCHANGED <<now, tz, registries, risks, selectedLocation, thresholdModal,
                   activeTab, view, notifications, rows, nextId, arg>>

\* What a button of a mounted row leaves alone besides risks, nextId and rows.
rowFrame == <<now, tz, registries, selectedLocation, thresholdModal, activeTab, uploads, arg>>

\* The row's delete button, the confirm dialog accepted.
onDelete(id) ==
    /\ Counted
    /\ id \in DOMAIN rows
    /\ risks' = deleteRisk(risks, id)
    /\ ret' = [fn |-> "deleteRisk", riskId |-> id]
    /\ UNCHANGED <<rowFrame, nextId>>
    /\ Rerender(rows)
    /\ Renotify

onStatusChange(id, status) ==
    /\ Counted
    /\ id \in DOMAIN rows
    /\ risks' = updateStatus(risks, id, status)
    /\ ret' = [fn |-> "updateStatus", riskId |-> id]
    /\ UNCHANGED <<rowFrame, nextId>>
    /\ Rerender(rows)
    /\ Renotify

\* onChange of the row's date field.
setNewActionDate(id, date) ==
    /\ Counted
    /\ id \in DOMAIN rows
    /\ ret' = [fn |-> "setNewActionDate", riskId |-> id]
    /\ UNCHANGED <<rowFrame, risks, notifications, nextId>>
    /\ Rerender([rows EXCEPT ![id] = [newActionDate |-> date, suggestion |-> <<>>]])

\* handleAddAction of the row of risk id, its text field holding text and its
\* responsible select holding responsibleId.
handleAddAction(id, text, responsibleId) ==
    LET item == RiskById(risks, id)
        thresholds == getThresholdsForLocation(registries, item.location)
        dateToUse == IF rows[id].newActionDate # <<>> THEN rows[id].newActionDate
                     ELSE calculateSLADate(item.risk_score, thresholds, now, tz)
    IN  /\ Counted
        /\ id \in DOMAIN rows
        /\ IF Trim(text) # ""
             THEN /\ nextId <= Len(GeneratedIds)
                  /\ risks' = addAction(risks, id, generateId(nextId), Trim(text),
                                        dateToUse, responsibleId)
                  /\ nextId' = nextId + 1
                  /\ ret' = [fn |-> "handleAddAction", riskId |-> id, text |-> text,
                             responsibleId |-> responsibleId, added |-> TRUE]
                  /\ UNCHANGED rowFrame
                  /\ Rerender([rows EXCEPT ![id] = SuggestRow(item, thresholds, now, tz)])
                  /\ Renotify
             ELSE /\ ret' = [fn |-> "handleAddAction", riskId |-> id, text |-> text,
                             responsibleId |-> responsibleId, added |-> FALSE]
                  /\ UNCHANGED <<rowFrame, risks, nextId, view, notifications, rows>>

onDeleteAction(id, actionId) ==
    /\ Counted
    /\ id \in DOMAIN rows
    /\ risks' = deleteAction(risks, id, actionId)
    /\ ret' = [fn |-> "deleteAction", riskId |-> id, actionId |-> actionId]
    /\ UNCHANGED <<rowFrame, nextId>>
    /\ Rerender(rows)
    /\ Renotify

onToggleAction(id, actionId) ==
    /\ Counted
    /\ risks' = toggleAction(risks, id, actionId)
    /\ ret' = [fn |-> "toggleAction", riskId |-> id, actionId |-> actionId]
    /\ UNCHANGED <<rowFrame, nextId>>
    /\ Rerender(rows)
    /\ Renotify

onUpdateActionDate(id, actionId, date) ==
    /\ Counted
    /\ risks' = updateActionDate(risks, id, actionId, date)
    /\ ret' = [fn |-> "updateActionDate", riskId |-> id, actionId |-> actionId,
               date |-> date]
    /\ UNCHANGED <<rowFrame, nextId>>
    /\ Rerender(rows)
    /\ Renotify

onUpdateActionResponsible(id, actionId, responsibleId) ==
    /\ Counted
    /\ risks' = updateActionResponsible(risks, id, actionId, responsibleId)
    /\ ret' = [fn |-> "updateActionResponsible", riskId |-> id, actionId |-> actionId,
               responsibleId |-> responsibleId]
    /\ UNCHANGED <<rowFrame, nextId>>
    /\ Rerender(rows)
    /\ Renotify

\* The ids of the actions the row of risk id lists.
ActionIdsOf(id) ==
    {RiskById(risks, id).actions[k].id : k \in 1..Len(RiskById(risks, id).actions)}


NextRisks ==
    \/ \E tab \in Tabs : setActiveTab(tab)
    \/ \E loc \in UnitFilters : setSelectedLocation(loc)
    \/ ClockAdvances
    \/ handleFileUpload
    \/ \E k \in 1..Len(uploads) : \E res \in AnalysisResults : UploadAnalysed(k, res)
    \/ \E k \in 1..Len(uploads) : UploadFailed(k)
    \/ \E id \in DOMAIN rows : onDelete(id)
    \/ \E id \in DOMAIN rows : \E st \in StatusInputs : onStatusChange(id, st)
    \/ \E id \in DOMAIN rows : \E d \in TypedDates : setNewActionDate(id, d)
    \/ \E id \in DOMAIN rows : \E inp \in AddActionInputs :
          handleAddAction(id, inp[1], inp[2])
    \/ \E id \in DOMAIN rows : \E a \in ActionIdsOf(id) : onDeleteAction(id, a)
    \/ \E id \in DOMAIN rows : \E a \in ActionIdsOf(id) : onToggleAction(id, a)
    \/ \E id \in DOMAIN rows : \E a \in ActionIdsOf(id) :
          onUpdateActionDate(id, a, <<2024, 6, 10>>)
    \/ \E id \in DOMAIN rows : \E a \in ActionIdsOf(id) :
          onUpdateActionResponsible(id, a, "emp-1")

SpecRisks == InitRisks /\ [][NextRisks]_vars

\* ============================================================================
\* Uploads with the threshold editor used while their analysis is in flight.
\* ============================================================================
\* The editor is an overlay over the whole window: while it is open the
\* upload button and the location filter cannot be reached, and an analysis
\* in flight can still end.
NextUpload ==
    \/ ~thresholdModal.isOpen /\ handleFileUpload
    \/ \E loc \in UnitFilters : ~thresholdModal.isOpen /\ setSelectedLocation(loc)
    \/ \E k \in 1..Len(uploads) : \E res \in AnalysisResults : UploadAnalysed(k, res)
    \/ \E k \in 1..Len(uploads) : UploadFailed(k)
    \/ \E r \in 1..Len(registries) : \E u \in 1..Len(registries[r].units) :
          uploads # <<>> /\ openThresholdSettings(r, u)
    \/ EditThresholdField("substantial", 250)
    \/ saveThresholds

SpecUpload == InitRisks /\ [][NextUpload]_vars

\* ============================================================================
\* The unit tree: units renamed, added and deleted, and their thresholds
\* edited.
\* ============================================================================
\* What the name field may hold when the edit is saved.
EditNames == {"  ", "Depo", "Ek Bina"}

\* The ids a name edit may be for.
EditableIds ==
    {registries[r].id : r \in 1..Len(registries)}
      \cup {getAllUnits(registries)[u].id : u \in 1..Len(getAllUnits(registries))}

\* saveEditing() with editingId and editTempName as startEditing and the name
\* field left them.  oldName is assigned inside the updater passed to
\* setRegistries, which React runs either at once or at the next render:
\* when saveEditing tests oldName it is the old name or still "".
saveEditing(editingId, editTempName) ==
    /\ Counted
    /\ ret' = [fn |-> "saveEditing", editingId |-> editingId]
    /\ UNCHANGED <<now, tz, risks, thresholdModal, activeTab, notifications, uploads,
                   nextId, arg>>
    /\ IF Trim(editTempName) = ""
         THEN UNCHANGED <<registries, selectedLocation, view, rows>>
         ELSE /\ registries' = registriesAfterSaveEditing(registries, editingId, editTempName)
              /\ \E oldName \in {"", oldNameOf(registries, editingId)} :
                    selectedLocation' =
                       IF oldName # "" /\ selectedLocation = oldName THEN editTempName
                       ELSE selectedLocation
              /\ Rerender(rows)

\* addUnit(registryId), for the r-th registry.
addUnit(r) ==
    /\ Counted
    /\ nextId <= Len(GeneratedIds)
    /\ registries' = [registries EXCEPT ![r].units =
                         Append(@, [id |-> generateId(nextId), name |-> "Yeni Isletme",
                                    thresholds |-> <<>>])]
    /\ nextId' = nextId + 1
    /\ ret' = [fn |-> "addUnit"]
    /\ UNCHANGED <<now, tz, risks, selectedLocation, thresholdModal, activeTab,
                   notifications, uploads, arg>>
    /\ Rerender(rows)

\* requestDeleteUnit(registryId, unitId) for the u-th unit of the r-th
\* registry, the confirmation accepted.
confirmDeleteUnit(r, u) ==
    /\ Counted
    /\ registries' = [registries EXCEPT ![r].units = RemoveAt(@, u)]
    /\ selectedLocation' = IF selectedLocation = registries[r].units[u].name
                             THEN ALL_UNITS ELSE selectedLocation
    /\ ret' = [fn |-> "deleteUnit"]
    /\ UNCHANGED <<now, tz, risks, thresholdModal, activeTab, notifications, uploads,
                   nextId, arg>>
    /\ Rerender(rows)

\* The threshold editor is an overlay over the whole window: the unit tree
\* cannot be reached while it is open.
NextRegistry ==
    \/ \E id \in EditableIds : \E name \in EditNames :
          ~thresholdModal.isOpen /\ saveEditing(id, name)
    \/ \E r \in 1..Len(registries) : ~thresholdModal.isOpen /\ addUnit(r)
    \/ \E r \in 1..Len(registries) : \E u \in 1..Len(registries[r].units) :
          ~thresholdModal.isOpen /\ confirmDeleteUnit(r, u)
    \/ \E r \in 1..Len(registries) : \E u \in 1..Len(registries[r].units) :
          ~thresholdModal.isOpen /\ openThresholdSettings(r, u)
    \/ EditThresholdField("substantial", 100)
    \/ saveThresholds

SpecRegistry == InitRisks /\ [][NextRegistry]_vars

\* ============================================================================
\* toggleAction, updateActionDate and updateActionResponsible called with
\* arbitrary ids.
\* ============================================================================
\* How many calls a run makes.
MaxCalls == 2

\* The calls tried: those the buttons of a mounted row make, and calls whose
\* hazard id is in no record, or whose action id is not in the hazard named
\* (an id in no record, and the id of the second sample hazard's action).
ActionCalls ==
    {<<id, a>> : id \in DOMAIN rows, a \in {"act-3", "act-none"}}
      \cup {<<"risk-none", a>> : a \in {"act-1", "act-none"}}
      \cup UNION {{<<id, a>> : a \in ActionIdsOf(id)} : id \in DOMAIN rows}

NextActions ==
    \/ \E c \in ActionCalls : ops < MaxCalls /\ onToggleAction(c[1], c[2])
    \/ \E c \in ActionCalls : \E d \in TypedDates :
          ops < MaxCalls /\ onUpdateActionDate(c[1], c[2], d)
    \/ \E c \in ActionCalls : \E e \in EmployeeIds :
          ops < MaxCalls /\ onUpdateActionResponsible(c[1], c[2], e)

SpecActions == InitRisks /\ [][NextActions]_vars

\* ============================================================================
\* Properties
\* ============================================================================
\* intolerable > substantial > important > possible
Descending(t) ==
    /\ Gt(t.intolerable, t.substantial)
    /\ Gt(t.substantial, t.important)
    /\ Gt(t.important, t.possible)

TierLabels ==
    {"TOLERANS GOSTERILEMEZ", "ESASLI RISK", "ONEMLI RISK", "OLASI RISK", "ONEMSIZ RISK"}

\* C1: for strictly descending thresholds and a score >= 0, getRiskClass
\* returns one of the five labels; the chosen tier's lower boundary is below
\* the score and the next-higher boundary is at or above it, so a score equal
\* to a boundary falls to the lower tier (400 with the defaults is ESASLI RISK).
C1_ClassifyBoundaries ==
    (ret.fn = "getRiskClass" /\ Descending(arg.t) /\ arg.score >= 0) =>
        LET l == ret.val.label
            t == arg.t
            s == arg.score
        IN  /\ l \in TierLabels
            /\ l = "TOLERANS GOSTERILEMEZ" => t.intolerable < s
            /\ l = "ESASLI RISK" => t.substantial < s /\ t.intolerable >= s
            /\ l = "ONEMLI RISK" => t.important < s /\ t.substantial >= s
            /\ l = "OLASI RISK" => t.possible < s /\ t.important >= s
            /\ l = "ONEMSIZ RISK" => t.possible >= s
            /\ (s = 400 /\ t = DEFAULT_THRESHOLDS) => l = "ESASLI RISK"

C1_Witness ==
    /\ ret.fn = "getRiskClass"
    /\ arg.t = DEFAULT_THRESHOLDS
    /\ arg.score = 400
    /\ ret.val.label = "ESASLI RISK"

TierOffset(label) ==
    CASE label = "TOLERANS GOSTERILEMEZ" -> 0
      [] label = "ESASLI RISK" -> 30
      [] label = "ONEMLI RISK" -> 60
      [] label = "OLASI RISK" -> 90
      [] label = "ONEMSIZ RISK" -> 180

TierSLALabel(label) ==
    CASE label = "TOLERANS GOSTERILEMEZ" -> "Acil (Hemen)"
      [] label = "ESASLI RISK" -> "1 Ay"
      [] label = "ONEMLI RISK" -> "2 Ay"
      [] label = "OLASI RISK" -> "3 Ay"
      [] label = "ONEMSIZ RISK" -> "Dusuk Oncelik"

\* C2: for every score and thresholds, calculateSLADate and getSLALabel pick
\* the tier getRiskClass returns: the date returned is a calendar date lying
\* exactly 0 / 30 / 60 / 90 / 180 days after the clock's local calendar date,
\* and the label is the one of that tier.
C2_DeadlineMatchesTier ==
    LET tier == getRiskClass(arg.score, arg.t).label
    IN  /\ ret.fn = "calculateSLADate" =>
              /\ IsDateString(ret.val)
              /\ DaysFromCivil(ret.val[1], ret.val[2], ret.val[3])
                    - LocalDayNumber(now, tz) = TierOffset(tier)
        /\ ret.fn = "getSLALabel" => ret.val = TierSLALabel(tier)

C2_Witness ==
    /\ ret.fn = "calculateSLADate"
    /\ arg.t = DEFAULT_THRESHOLDS
    /\ arg.score = 201
    /\ FormatLocalDate(now, tz) = <<2024, 1, 31>>
    /\ ret.val = <<2024, 3, 1>>

\* C3: with an empty lastEventDate calculateValidity answers 'missing' with
\* 0 days, for every hazard class, compliance type, clock and time zone.
C3_EmptyDateIsNoData ==
    (ret.fn = "calculateValidity" /\ arg.dateStr = <<>>) =>
        /\ ret.val.status = "missing"
        /\ ret.val.days = 0

C3_Witness ==
    /\ ret.fn = "calculateValidity"
    /\ arg.dateStr = <<>>
    /\ arg.hazardClass = "Cok Tehlikeli"
    /\ ret.val.status = "missing"

\* The validity periods in years, as the specification tabulates them.
ValidityYearsTable(hazardClass, type) ==
    CASE hazardClass = "Cok Tehlikeli" -> 1
      [] hazardClass = "Tehlikeli" -> (IF type = "training" THEN 2 ELSE 3)
      [] hazardClass = "Az Tehlikeli" -> (IF type = "training" THEN 3 ELSE 5)

\* C4: for a parsable lastEventDate the due date is the event date moved
\* ValidityYearsTable years ahead in the calendar with month and day kept
\* (Feb 29 running over to Mar 1 when the later year has no leap day).
C4_DueDateKeepsMonthAndDay ==
    (ret.fn = "calculateValidity" /\ IsDateString(arg.dateStr)) =>
        validityDueDate(arg.dateStr, arg.hazardClass, arg.type, tz)
            = SameDayLater(arg.dateStr, ValidityYearsTable(arg.hazardClass, arg.type))

\* The least number of whole days that covers x hours.
CeilOfDays(x) ==
    CHOOSE k \in {x \div HoursPerDay, x \div HoursPerDay + 1} :
        k * HoursPerDay >= x /\ (k - 1) * HoursPerDay < x

\* C5: for a parsable lastEventDate, with daysRemaining the difference between
\* the due date and the clock rounded up to whole days, the status is expired
\* iff daysRemaining < 0, warning iff 0 <= daysRemaining < 60 (its label
\* carrying that count) and valid iff daysRemaining >= 60; days is
\* daysRemaining.
C5_StatusFollowsDaysRemaining ==
    (ret.fn = "calculateValidity" /\ IsDateString(arg.dateStr)) =>
        LET dueDate == validityDueDate(arg.dateStr, arg.hazardClass, arg.type, tz)
            daysRemaining == CeilOfDays(dueDate - now)
        IN  /\ ret.val.days = daysRemaining
            /\ ret.val.status \in {"expired", "warning", "valid"}
            /\ ret.val.status = "expired" <=> daysRemaining < 0
            /\ ret.val.status = "warning" <=> (0 <= daysRemaining /\ daysRemaining < 60)
            /\ ret.val.status = "valid" <=> daysRemaining >= 60
            /\ ret.val.status = "warning" => ret.val.label = <<daysRemaining, "Gun Kaldi">>

C5_Witness ==
    /\ ret.fn = "calculateValidity"
    /\ IsDateString(arg.dateStr)
    /\ validityDueDate(arg.dateStr, arg.hazardClass, arg.type, tz) < now
    /\ ret.val.status = "warning"
    /\ ret.val.days = 0

\* The calendar day a due date names, as a day number.
DueDay(dateStr) == DaysFromCivil(dateStr[1], dateStr[2], dateStr[3])

\* The clock's local calendar day.
Today == LocalDayNumber(now, tz)

\* An incomplete action whose due calendar day lies before today.
PastDue(a) == ~a.isCompleted /\ a.dueDate # <<>> /\ DueDay(a.dueDate) < Today

\* C6: an action is overdue iff it is not completed and its due day has ended
\* (local time) before the clock: never when completed, never on its due day,
\* never with an empty due date; overdueActionsCount is the number of
\* incomplete actions whose due calendar day is before today's.
C6_OverdueIffPastDueDay ==
    /\ ret.fn = "isOverdue" =>
          \A i \in 1..Len(risks[arg.row].actions) :
              ret.val[i] <=> PastDue(risks[arg.row].actions[i])
    /\ ret.fn = "overdueActionsCount" =>
          ret.val = SumSeq([r \in 1..Len(risks) |-> Len(SelectSeq(risks[r].actions, PastDue))])

\* The incomplete actions of the row all carry a parsable due date.
ActiveDatesParsable ==
    \A i \in 1..Len(risks[arg.row].actions) :
        LET a == risks[arg.row].actions[i]
        IN  ~a.isCompleted => IsDateString(a.dueDate)

\* C7: the nearest action of calculateDaysLeft is an incomplete action with
\* the least due date, and the first such in list order; a completed action is
\* never chosen; with no incomplete action (or no action) the result is null.
C7_NearestIsFirstEarliestIncomplete ==
    (ret.fn = "calculateDaysLeft" /\ ActiveDatesParsable) =>
        LET actions == risks[arg.row].actions
            Open == {i \in 1..Len(actions) : ~actions[i].isCompleted}
        IN  IF Open = {} THEN ret.nearest = <<>> /\ ret.val = <<>>
            ELSE \E i \in Open :
                    /\ ret.nearest = <<actions[i]>>
                    /\ \A j \in Open : DueDay(actions[i].dueDate) <= DueDay(actions[j].dueDate)
                    /\ \A j \in Open :
                          actions[j].dueDate = actions[i].dueDate => i <= j

C7_Witness ==
    /\ ret.fn = "calculateDaysLeft"
    /\ Len(risks[arg.row].actions) = 3
    /\ risks[arg.row].actions[1].isCompleted
    /\ risks[arg.row].actions[1].dueDate = <<2024, 1, 1>>
    /\ ~risks[arg.row].actions[2].isCompleted
    /\ ~risks[arg.row].actions[3].isCompleted
    /\ risks[arg.row].actions[2].dueDate = <<2024, 6, 1>>
    /\ risks[arg.row].actions[3].dueDate = <<2024, 6, 1>>
    /\ ret.nearest = <<risks[arg.row].actions[2]>>

\* C8: daysLeft of the nearest incomplete action is the time from the clock to
\* the start of its due day, rounded up to whole days and not clamped: when
\* the due day is one or more days before today, daysLeft is negative.
C8_DaysLeftFromStartOfDueDay ==
    (ret.fn = "calculateDaysLeft" /\ ActiveDatesParsable /\ ret.nearest # <<>>) =>
        LET due == ret.nearest[1].dueDate
            startOfDay == MakeLocal(due[1], due[2] - 1, due[3], 0, tz)
        IN  /\ ret.val = <<CeilOfDays(startOfDay - now)>>
            /\ DueDay(due) < Today => ret.val[1] < 0

\* Four numbers, strictly descending.
WellFormed(t) == (\A f \in ThresholdFields : ~IsNaN(t[f])) /\ Descending(t)

\* C9: getThresholdsForLocation returns the location's own thresholds when the
\* unit has them and they are well-formed, and the default set in every other
\* case: no unit of that name, no override, or an override that is not
\* well-formed.
C9_ResolveCustomOrDefault ==
    ret.fn = "getThresholdsForLocation" =>
        LET named == {u \in 1..Len(getAllUnits(registries)) :
                         getAllUnits(registries)[u].name = ret.loc}
            first == CHOOSE u \in named : \A v \in named : u <= v
            own   == getAllUnits(registries)[first].thresholds
        IN  IF named # {} /\ own # <<>> /\ WellFormed(own[1]) THEN ret.val = own[1]
            ELSE ret.val = DEFAULT_THRESHOLDS

\* C10: in every reachable state the thresholds attached to every business
\* unit, and the thresholds handed to a calculation, are strictly descending:
\* intolerable > substantial > important > possible.
C10_ThresholdsStayDescending ==
    /\ \A u \in 1..Len(getAllUnits(registries)) :
          getAllUnits(registries)[u].thresholds # <<>> =>
              WellFormed(getAllUnits(registries)[u].thresholds[1])
    /\ ret.fn = "getThresholdsForLocation" => WellFormed(ret.val)

\* The call under study classified or scheduled a score of 0 or below.
NonPositiveCall ==
    /\ ret.fn \in {"getRiskClass", "calculateSLADate", "getSLALabel"}
    /\ arg.score <= 0

\* What the Negligible tier gives: the label and action of getRiskClass, a
\* date 180 days after the clock's local date, and the low-priority label.
NegligibleResult ==
    /\ ret.fn = "getRiskClass" =>
          ret.val = [label |-> "ONEMSIZ RISK", action |-> "Izlemeye Devam"]
    /\ ret.fn = "calculateSLADate" =>
          /\ IsDateString(ret.val)
          /\ DaysFromCivil(ret.val[1], ret.val[2], ret.val[3])
                - LocalDayNumber(now, tz) = 180
    /\ ret.fn = "getSLALabel" => ret.val = "Dusuk Oncelik"

\* C12 as stated: for every thresholds set, a score of 0 or below is
\* classified Negligible and gets the +180-day low-priority deadline.
C12_NonPositiveIsNegligible ==
    NonPositiveCall => NegligibleResult

NoNegativeBoundary(t) == \A f \in ThresholdFields : IsNaN(t[f]) \/ t[f] >= 0

\* C12, amended: for every thresholds set none of whose boundaries is
\* negative, a score of 0 or below is classified Negligible with the action
\* 'Izlemeye Devam' and gets the +180-day low-priority deadline.
C12_NonPositiveIsNegligibleAboveZero ==
    (NonPositiveCall /\ NoNegativeBoundary(arg.t)) => NegligibleResult

C12_Witness ==
    /\ ret.fn = "calculateSLADate"
    /\ arg.score = -1
    /\ arg.t = [DEFAULT_THRESHOLDS EXCEPT !.possible = 0]
    /\ FormatLocalDate(now, tz) = <<2023, 12, 31>>
    /\ ret.val = <<2024, 6, 28>>

\* The due date the validity table gives a parsable event date: midnight UTC
\* of the same month and day, ValidityYearsTable years later.
TableDueDate == SameDayLater(arg.dateStr, ValidityYearsTable(arg.hazardClass, arg.type))

ValidityPeriodDays == (TableDueDate - NewDate(arg.dateStr)) \div HoursPerDay

\* The clock is one day after the event date: at or after midnight UTC of the
\* next day and before the midnight after it.
OneDayAfterEvent ==
    /\ now >= NewDate(arg.dateStr) + HoursPerDay
    /\ now < NewDate(arg.dateStr) + 2 * HoursPerDay

\* C14: evaluated one day after a parsable event date, calculateValidity
\* answers valid for every hazard class and type with a day count of the
\* number of days in the validity period less one; the health check of
\* 2023-06-01 in an 'Az Tehlikeli' workplace is valid on 2023-06-02 with a day
\* count in 1824..1826.
C14_ValidWithPeriodLessOne ==
    (ret.fn = "calculateValidity" /\ IsDateString(arg.dateStr) /\ OneDayAfterEvent) =>
        /\ ret.val.status = "valid"
        /\ ret.val.days = ValidityPeriodDays - 1
        /\ arg = [dateStr |-> <<2023, 6, 1>>, hazardClass |-> "Az Tehlikeli",
                  type |-> "health"]
              => ret.val.days \in 1824..1826

\* C16: in every state, after any sequence of threshold edits, what is on the
\* screen is computed from the thresholds now stored: each hazard row shows
\* the label, the recommended action and the SLA label that getRiskClass and
\* getSLALabel give its risk_score with the current thresholds of its unit,
\* and the dashboard's critical and high counts are those the current
\* thresholds give.
C16_ViewUsesCurrentThresholds ==
    LET fr == filteredRisks(risks, selectedLocation)
        Current(r) == getThresholdsForLocation(registries, r.location)
        Open(r) == r.status # COMPLETED
        IsCritical(r) == Open(r) /\ Gt(r.risk_score, Current(r).substantial)
        IsHigh(r) == /\ Open(r)
                     /\ Gt(r.risk_score, Current(r).important)
                     /\ Le(r.risk_score, Current(r).substantial)
    IN  /\ activeTab = RISKS_TAB =>
              /\ Len(view.rows) = Len(fr)
              /\ \A i \in 1..Len(fr) :
                    /\ view.rows[i].id = fr[i].id
                    /\ view.rows[i].label = getRiskClass(fr[i].risk_score, Current(fr[i])).label
                    /\ view.rows[i].action = getRiskClass(fr[i].risk_score, Current(fr[i])).action
                    /\ view.rows[i].slaLabel = getSLALabel(fr[i].risk_score, Current(fr[i]))
        /\ view.criticalRisks = Cardinality({i \in 1..Len(fr) : IsCritical(fr[i])})
        /\ view.highRisks = Cardinality({i \in 1..Len(fr) : IsHigh(fr[i])})

\* An override was saved for 'Genel Mudurluk' and its hazard of score 126 is
\* shown with the tier that override gives, not the default one.
C16_Witness ==
    /\ activeTab = RISKS_TAB
    /\ getThresholdsForLocation(registries, "Genel Mudurluk").substantial = 100
    /\ \E i \in 1..Len(view.rows) :
          /\ view.rows[i].id = "sample-1"
          /\ view.rows[i].label = "ESASLI RISK"
          /\ view.rows[i].slaLabel = "1 Ay"
    /\ view.criticalRisks = 2

ScoreIsProduct ==
    \A i \in 1..Len(risks) :
        risks[i].risk_score = risks[i].probability * risks[i].frequency * risks[i].severity

\* A step leaves the factors and the score of every hazard it keeps as they
\* were.
FactorsKept ==
    \A i \in 1..Len(risks) : \A j \in 1..Len(risks') :
        risks'[j].id = risks[i].id =>
            /\ risks'[j].probability = risks[i].probability
            /\ risks'[j].frequency = risks[i].frequency
            /\ risks'[j].severity = risks[i].severity
            /\ risks'[j].risk_score = risks[i].risk_score

\* C11: in every reachable state every hazard of the risk list has
\* risk_score = probability * frequency * severity, the sample records and
\* the records an upload made (a zero or missing factor stored as 1) alike,
\* and no step changes a factor or the score of a hazard.
C11_ScoreIsProductOfFactors ==
    []ScoreIsProduct /\ [][FactorsKept]_vars

\* An upload whose hazard came with probability 0 stored it as 1, with the
\* score 1 * 6 * 40.
C11_Witness ==
    /\ ret.fn = "UploadAnalysed"
    /\ Len(ret.res) = 1
    /\ ret.res[1].probability = 0
    /\ risks[1].probability = 1
    /\ risks[1].risk_score = 240
    /\ Len(risks) = 3

\* The step is a call of deleteAction.
DeleteActionStep == ret'.fn = "deleteAction"

\* What deleteAction(riskId, actionId) must have done to the risk list.
DeleteActionEffect ==
    /\ Len(risks') = Len(risks)
    /\ \A i \in 1..Len(risks) :
          IF risks[i].id # ret'.riskId THEN risks'[i] = risks[i]
          ELSE /\ \A k \in 1..Len(risks'[i].actions) :
                      risks'[i].actions[k].id # ret'.actionId
               /\ \E p \in 1..Len(risks[i].actions) :
                      /\ risks[i].actions[p].id = ret'.actionId
                      /\ risks'[i].actions = RemoveAt(risks[i].actions, p)
               /\ risks'[i] = [risks[i] EXCEPT !.actions = risks'[i].actions]

\* C17: a call of deleteAction for an action of a hazard, whatever that
\* action's completion flag, due date, overdue state and responsible, leaves
\* the hazard's list without the action, the hazard's other actions with
\* their fields and in their order, the hazard's other fields and every
\* other hazard as they were.
C17_DeleteActionRemovesOnlyThatAction ==
    [][DeleteActionStep => DeleteActionEffect]_vars

\* The overdue, incomplete action act-3 (due 2024-05-21, responsible emp-2)
\* was deleted: its hazard has no action left and the other hazard has its two.
C17_Witness ==
    /\ ret.fn = "deleteAction"
    /\ ret.actionId = "act-3"
    /\ isOverdue(SAMPLE_RISKS[2].actions[1].dueDate, now, tz)
    /\ ~SAMPLE_RISKS[2].actions[1].isCompleted
    /\ risks = <<SAMPLE_RISKS[1], [SAMPLE_RISKS[2] EXCEPT !.actions = <<>>]>>

\* C18: in every reachable state no action id occurs at two places of the
\* risk list, be it in two hazards' lists or twice in one.
C18_ActionBelongsToOneHazard ==
    \A i \in 1..Len(risks), j \in 1..Len(risks) :
        \A k \in 1..Len(risks[i].actions), l \in 1..Len(risks[j].actions) :
            risks[i].actions[k].id = risks[j].actions[l].id => (i = j /\ k = l)

\* An upload seeded two actions and the row of a sample hazard added one more:
\* five actions and five ids.
C18_Witness ==
    /\ ret.fn = "handleAddAction"
    /\ ret.added
    /\ Len(risks) = 3
    /\ Len(risks[1].actions) = 2
    /\ risks[1].actions[2].id = generateId(3)
    /\ \E i \in 2..3 : \E k \in 1..Len(risks[i].actions) :
          risks[i].actions[k].id = generateId(4)

\* The step is a press of "Ekle" in the row of the risk ret'.riskId.
AddActionStep == ret'.fn = "handleAddAction"

\* The text of the description field is blank: empty or white space only.
Blank(text) == text \in {"", "  "}

\* The date the creator chose: the content of the row's date field if the
\* user typed it (<<>> if the field holds a date the row put there, or none).
ChosenDate(row) == IF row.suggestion = <<>> THEN row.newActionDate ELSE <<>>

\* The date the SLA scheduler suggests to the row of item: the one it put in
\* the date field, computed from the score and the thresholds of the item's
\* location when it did, or if the field is empty the one it computes at the
\* press.
SuggestedDate(row, item) ==
    IF row.suggestion # <<>>
      THEN calculateSLADate(item.risk_score, row.suggestion[1].thresholds,
                            row.suggestion[1].at, tz)
      ELSE calculateSLADate(item.risk_score,
                            getThresholdsForLocation(registries, item.location), now, tz)

\* What handleAddAction must have done to the risk list.
AddActionEffect ==
    LET row == rows[ret'.riskId]
        item == RiskById(risks, ret'.riskId)
    IN  IF Blank(ret'.text) THEN risks' = risks /\ ~ret'.added
        ELSE /\ ret'.added
             /\ Len(risks') = Len(risks)
             /\ \A i \in 1..Len(risks) :
                   IF risks[i].id # ret'.riskId THEN risks'[i] = risks[i]
                   ELSE /\ Len(risks'[i].actions) = Len(risks[i].actions) + 1
                        /\ SubSeq(risks'[i].actions, 1, Len(risks[i].actions))
                              = risks[i].actions
                        /\ risks'[i] = [risks[i] EXCEPT !.actions = risks'[i].actions]
                        /\ LET new == risks'[i].actions[Len(risks'[i].actions)]
                           IN  /\ ~new.isCompleted
                               /\ ~Blank(new.description)
                               /\ new.responsibleId = ret'.responsibleId
                               /\ new.dueDate = IF ChosenDate(row) # <<>>
                                                  THEN ChosenDate(row)
                                                  ELSE SuggestedDate(row, item)
                               /\ row.suggestion # <<>> =>
                                     row.suggestion[1].thresholds =
                                        getThresholdsForLocation(registries,
                                                                 item.location)

UnparsableDateCall ==
    /\ ret.fn = "calculateValidity"
    /\ arg.dateStr # <<>>
    /\ ~IsDateString(arg.dateStr)

\* C21: calculateValidity given a non-empty date string that cannot be parsed
\* into a calendar date does not answer valid, warning or expired (it fails
\* with an invalid-input error instead), and getRiskClass / calculateSLADate
\* given thresholds that are not strictly descending return no tier.
C21_MalformedInputIsRejected ==
    /\ UnparsableDateCall => ret.val.status \notin {"valid", "warning", "expired"}
    /\ (ret.fn = "getRiskClass" /\ ~Descending(arg.t)) => ret.val.label \notin TierLabels

\* How severe a tier is: 0 for the mildest, 4 for the most severe.
TierSeverity(label) ==
    CASE label = "ONEMSIZ RISK" -> 0
      [] label = "OLASI RISK" -> 1
      [] label = "ONEMLI RISK" -> 2
      [] label = "ESASLI RISK" -> 3
      [] label = "TOLERANS GOSTERILEMEZ" -> 4

\* The days from the clock's local calendar date to the date a deadline names.
DeadlineOffset(date) == DaysFromCivil(date[1], date[2], date[3]) - LocalDayNumber(now, tz)

\* C27: for strictly descending thresholds and scores s1 <= s2, getRiskClass
\* gives s2 a tier at least as severe as the one it gives s1, and
\* calculateSLADate gives s2 a deadline no later than the one it gives s1.
C27_HigherScoreNeverMilderOrLater ==
    Descending(arg.t) =>
        \A s2 \in ClassifyScores :
            arg.score <= s2 =>
                /\ ret.fn = "getRiskClass" =>
                      TierSeverity(getRiskClass(s2, arg.t).label)
                          >= TierSeverity(ret.val.label)
                /\ ret.fn = "calculateSLADate" =>
                      DeadlineOffset(calculateSLADate(s2, arg.t, now, tz))
                          <= DeadlineOffset(ret.val)

\* The score 70 got the 90-day deadline and the score 201 a strictly earlier
\* one, 30 days out.
C27_Witness ==
    /\ ret.fn = "calculateSLADate"
    /\ arg.t = DEFAULT_THRESHOLDS
    /\ arg.score = 70
    /\ DeadlineOffset(ret.val) = 90
    /\ DeadlineOffset(calculateSLADate(201, arg.t, now, tz)) = 30

\* C28: for the nearest incomplete action of a row whose incomplete actions
\* carry parsable dates, daysLeft < 0 iff isOverdue holds of that action's due
\* date, and an action due on the clock's local calendar day gives
\* daysLeft = 0 and is not overdue.
C28_DaysLeftAgreesWithOverdue ==
    (ret.fn = "calculateDaysLeft" /\ ActiveDatesParsable /\ ret.nearest # <<>>) =>
        LET due == ret.nearest[1].dueDate
        IN  /\ ret.val[1] < 0 <=> isOverdue(due, now, tz)
            /\ DueDay(due) = Today => (ret.val[1] = 0 /\ ~isOverdue(due, now, tz))

\* The clock is past the due date of the validity table by less than a day.
WithinADayPastDue ==
    /\ IsDateString(arg.dateStr)
    /\ TableDueDate < now
    /\ now < TableDueDate + HoursPerDay

\* C29: calculateValidity answers expired only when the clock is a whole day
\* or more past the due date (event date + validity years); at every clock
\* reading within the day after the due date it answers warning with a day
\* count of 0, and the record is counted neither in expiredTraining nor in
\* expiredHealth.
C29_NotExpiredWithinADayPastDue ==
    /\ (ret.fn = "calculateValidity" /\ IsDateString(arg.dateStr)) =>
          (ret.val.status = "expired" => now >= TableDueDate + HoursPerDay)
    /\ (ret.fn = "calculateValidity" /\ WithinADayPastDue) =>
          (ret.val.status = "warning" /\ ret.val.days = 0)
    /\ (ret.fn = "expiredTotals" /\ WithinADayPastDue) =>
          (ret.expiredTraining = 0 /\ ret.expiredHealth = 0)

\* The same, for the records whose due date the code computes as the table
\* gives it.
C29_WhereDueDateIsTheTables ==
    validityDueDate(arg.dateStr, arg.hazardClass, arg.type, tz) = TableDueDate
        => C29_NotExpiredWithinADayPastDue

\* The step is a press of "Ekle" that created an action while the row's date
\* field held no date typed by the user.
AddedWithoutChosenDate ==
    /\ ret'.fn = "handleAddAction"
    /\ ret'.added
    /\ ChosenDate(rows[ret'.riskId]) = <<>>

\* C22: an action created without a date chosen by its creator is due on
\* calculateSLADate(risk_score, the thresholds of the hazard's location at
\* the press, the clock at the press), whatever happened since the row was
\* first shown.
C22_SuggestedDeadlineIsFresh ==
    [][AddedWithoutChosenDate =>
          \A i \in 1..Len(risks') :
              risks'[i].id = ret'.riskId =>
                  risks'[i].actions[Len(risks'[i].actions)].dueDate
                      = calculateSLADate(risks[i].risk_score,
                                         getThresholdsForLocation(registries,
                                                                  risks[i].location),
                                         now, tz)]_vars

\* What the end of an upload's analysis must have done to the risk list.
UploadEffect ==
    /\ ret'.fn = "UploadFailed" => risks' = risks
    /\ ret'.fn = "UploadAnalysed" =>
          /\ ret'.res = <<>> => risks' = risks
          /\ Len(risks') = Len(risks) + Len(ret'.res)
          /\ SubSeq(risks', Len(ret'.res) + 1, Len(risks')) = risks
          /\ \A i \in 1..Len(ret'.res) : \A j \in 1..Len(risks) :
                risks'[i].id # risks[j].id

\* C30: when analyzeHazard throws, or returns the empty list because the
\* response text is not valid JSON, the risk list after the upload is the
\* risk list before it; when it returns hazards, one new hazard per returned
\* hazard is put in front of the list and the hazards that were there follow
\* unchanged and in their order.
C30_FailedUploadLeavesRisksAlone ==
    [][UploadEffect]_vars

\* An upload ended with the empty list after a sample action had been
\* completed: the list is the one before the upload, not the sample list.
C30_Witness ==
    /\ ret.fn = "UploadAnalysed"
    /\ ret.res = <<>>
    /\ risks = ret.before
    /\ Len(risks) = 2
    /\ risks # SAMPLE_RISKS

\* The step is a call of one of the three action mutations.
ActionMutationStep ==
    ret'.fn \in {"toggleAction", "updateActionDate", "updateActionResponsible"}

\* What the mutation made of the action a it names.
MutatedAction(a) ==
    CASE ret'.fn = "toggleAction" -> [a EXCEPT !.isCompleted = ~a.isCompleted]
      [] ret'.fn = "updateActionDate" -> [a EXCEPT !.dueDate = ret'.date]
      [] ret'.fn = "updateActionResponsible" ->
            [a EXCEPT !.responsibleId = ret'.responsibleId]

\* The hazard and the action the call names exist.
NamesAnAction ==
    \E i \in 1..Len(risks) :
        /\ risks[i].id = ret'.riskId
        /\ \E k \in 1..Len(risks[i].actions) : risks[i].actions[k].id = ret'.actionId

\* What an action mutation must have done to the risk list.
ActionMutationEffect ==
    /\ Len(risks') = Len(risks)
    /\ \A i \in 1..Len(risks) :
          IF risks[i].id # ret'.riskId THEN risks'[i] = risks[i]
          ELSE /\ risks'[i] = [risks[i] EXCEPT !.actions = risks'[i].actions]
               /\ Len(risks'[i].actions) = Len(risks[i].actions)
               /\ \A k \in 1..Len(risks[i].actions) :
                     risks'[i].actions[k] =
                        IF risks[i].actions[k].id = ret'.actionId
                          THEN MutatedAction(risks[i].actions[k])
                          ELSE risks[i].actions[k]
    /\ ~NamesAnAction => risks' = risks

\* C26: toggleAction flips only isCompleted, updateActionDate replaces only
\* dueDate and updateActionResponsible replaces only responsibleId, of the
\* action with the given id in the hazard with the given id; every other
\* field of that action, every other action, the hazard's other fields and
\* every other hazard stay as they were, and a call naming a hazard that is
\* not in the list, or an action that is not in that hazard, changes nothing.
C26_ActionMutationChangesOnlyItsField ==
    [][ActionMutationStep => ActionMutationEffect]_vars

\* After act-1 had been completed, a toggle naming the first sample hazard
\* and the action of the second changed nothing: act-3 is still open.
C26_Witness ==
    /\ ret.fn = "toggleAction"
    /\ ret.riskId = "sample-1"
    /\ ret.actionId = "act-3"
    /\ Len(risks) = 2
    /\ risks = <<[SAMPLE_RISKS[1] EXCEPT !.actions[1].isCompleted = TRUE], SAMPLE_RISKS[2]>>

\* The notification list holds an item with the given id prefix and type for
\* the risk of the given id.
Notified(prefix, type, riskId) ==
    \E n \in 1..Len(notifications) :
        /\ notifications[n].id = <<prefix, riskId>>
        /\ notifications[n].type = type

\* C24: in every state, after any sequence of threshold edits, a hazard that
\* is not completed has a critical notification of its score iff its
\* risk_score is above the substantial threshold now stored for its location,
\* and a warning notification iff its score is above the important and not
\* above the substantial threshold now stored; a completed hazard has neither.
C24_NotificationsUseCurrentThresholds ==
    \A i \in 1..Len(risks) :
        LET r == risks[i]
            t == getThresholdsForLocation(registries, r.location)
            open == r.status # COMPLETED
        IN  /\ Notified("crit", "critical", r.id) <=>
                  (open /\ Gt(r.risk_score, t.substantial))
            /\ Notified("warn", "warning", r.id) <=>
                  (open /\ Gt(r.risk_score, t.important) /\ Le(r.risk_score, t.substantial))

\* A handleFileUpload call that starts an analysis reads the selected location
\* and that location's thresholds, and what it read stays as it is while the
\* analysis is in flight.
UploadReadsOnce ==
    /\ (ret'.fn = "handleFileUpload" /\ ret'.started) =>
          uploads' = Append(uploads,
                            [selectedLocation |-> selectedLocation,
                             currentThresholds |->
                                 getThresholdsForLocation(registries, selectedLocation)])
    /\ ret'.fn \notin {"handleFileUpload", "UploadAnalysed", "UploadFailed"} =>
          uploads' = uploads
    /\ ret'.fn \in {"UploadAnalysed", "UploadFailed"} =>
          \E k \in 1..Len(uploads) : uploads' = RemoveAt(uploads, k)

\* Every hazard the upload that just ended produced carries the location read
\* at its start, and every action seeded with it is incomplete and due on the
\* date calculateSLADate gives the hazard's score with the thresholds read at
\* its start.
UploadUsesWhatItRead ==
    ret'.fn = "UploadAnalysed" =>
        \A i \in 1..Len(ret'.res) :
            /\ risks'[i].location = ret'.upload.selectedLocation
            /\ \A k \in 1..Len(risks'[i].actions) :
                  /\ ~risks'[i].actions[k].isCompleted
                  /\ risks'[i].actions[k].dueDate
                        = calculateSLADate(risks'[i].risk_score,
                                           ret'.upload.currentThresholds, now, tz)

\* C25: every hazard and every seeded action produced by one upload gets its
\* due date from calculateSLADate with the thresholds handleFileUpload read
\* when the upload started, whether or not the location's thresholds were
\* edited or another location was selected while the analysis was in flight;
\* every seeded action is stored incomplete and every produced hazard carries
\* the location selected at the start.
C25_UploadUsesOneSnapshot ==
    [][UploadReadsOnce /\ UploadUsesWhatItRead]_vars

\* An upload for 'Genel Mudurluk' ended after that unit's substantial
\* threshold had been raised to 250 and 'Ek Bina' had been selected: its
\* hazard of score 240 is at 'Genel Mudurluk' and its actions are due 30 days
\* out, as the thresholds read at the start give, not 60.
C25_Witness ==
    /\ ret.fn = "UploadAnalysed"
    /\ ret.upload.selectedLocation = "Genel Mudurluk"
    /\ selectedLocation = "Ek Bina"
    /\ ret.upload.currentThresholds = DEFAULT_THRESHOLDS
    /\ getThresholdsForLocation(registries, "Genel Mudurluk").substantial = 250
    /\ Len(ret.res) = 1
    /\ risks[1].risk_score = 240
    /\ risks[1].location = "Genel Mudurluk"
    /\ Len(risks[1].actions) = 2
    /\ risks[1].actions[1].dueDate = calculateSLADate(240, DEFAULT_THRESHOLDS, now, tz)
    /\ risks[1].actions[1].dueDate
          # calculateSLADate(240, getThresholdsForLocation(registries, "Genel Mudurluk"),
                             now, tz)

\* The unit at which a hazard of the sample list was recorded: the one that
\* carried the hazard's location name when the list was made.
RecordedUnit(riskId) == IF riskId = "sample-1" THEN "u-hq-1" ELSE "u-hq-2"

\* C23: after any sequence of unit renames, unit additions, unit deletions
\* and threshold edits, the thresholds getThresholdsForLocation resolves for
\* a hazard are those of the unit at which it was recorded: that unit's
\* override if it has one, the defaults if it has none (or is no longer in
\* the tree), and never the override of another unit.
C23_ThresholdsFollowTheUnit ==
    \A i \in 1..Len(risks) :
        LET units == getAllUnits(registries)
            own == {u \in 1..Len(units) : units[u].id = RecordedUnit(risks[i].id)}
            resolved == getThresholdsForLocation(registries, risks[i].location)
        IN  /\ \A u \in own :
                  resolved = IF units[u].thresholds # <<>> THEN units[u].thresholds[1]
                             ELSE DEFAULT_THRESHOLDS
            /\ own = {} => resolved = DEFAULT_THRESHOLDS

============================================================================
